---- MODULE Spec2Model ----
(***************************************************************************)
(* Playbook execution and output parsing of the wordsail CLI               *)
(* (package ansible: Executor, InventoryGenerator).                        *)
(*                                                                         *)
(* A line of subprocess output is a sequence of atoms.  An atom is either  *)
(* one character (a digit, a blank) or a literal chunk of text that the    *)
(* patterns of the executor treat as a unit ("TASK [", "fatal:", "ok=").   *)
(* The regular expressions of the executor are operators over such lines.  *)
(***************************************************************************)
EXTENDS Integers, Sequences, FiniteSets, TLC

(***************************************************************************)
(* Bounds of the model                                                     *)
(***************************************************************************)
MaxOut == 2        \* lines the child writes to stdout
MaxErr == 1        \* lines the child writes to stderr
PipeCap == 1       \* lines an OS pipe holds before the writer blocks
MaxClock == 2      \* instants the wall clock may advance
TicksPerSecond == 2 \* instants of the wall clock within one second
MaxVal == 4        \* largest value of a variable in a payload
NumCallers == 2    \* concurrent users of the inventory generator
MaxBuf == 2        \* lines of captured stdout handed to the marker parsers
MaxSites == 1      \* sites a server holds before site create is no longer tried
MaxDomains == 1    \* domains a site holds before domain add is no longer tried
MaxSegs == 2       \* stretches of captured stdout handed to printErrorContext
MaxSaves == 2      \* calls of Save a CLI invocation makes

(***************************************************************************)
(* Lines and the patterns over them                                        *)
(***************************************************************************)
Digits == <<"0", "1", "2", "3", "4", "5", "6", "7", "8", "9">>

IsDigit(a) == \E d \in 1..10 : Digits[d] = a

IsSpace(a) == a = " "

DigitVal(a) == (CHOOSE d \in 1..10 : Digits[d] = a) - 1

\* fmt.Sscanf(s, "%d", &x) on a run of digits: the decimal value
RECURSIVE Sscanf(_)
Sscanf(ds) ==
    IF Len(ds) = 0 THEN 0
    ELSE 10 * Sscanf(SubSeq(ds, 1, Len(ds) - 1)) + DigitVal(ds[Len(ds)])

\* fmt.Sprintf("%v", n) and json.Marshal of a non-negative integer
RECURSIVE FormatInt(_)
FormatInt(n) ==
    IF n < 10 THEN <<Digits[n + 1]>>
    ELSE FormatInt(n \div 10) \o <<Digits[(n % 10) + 1]>>

\* length of the longest run of digits (`\d+`) that starts at position i
RECURSIVE DigitRun(_, _)
DigitRun(line, i) ==
    IF i > Len(line) \/ ~IsDigit(line[i]) THEN 0
    ELSE 1 + DigitRun(line, i + 1)

\* length of the longest run of blanks (`\s+`) that starts at position i
RECURSIVE SpaceRun(_, _)
SpaceRun(line, i) ==
    IF i > Len(line) \/ ~IsSpace(line[i]) THEN 0
    ELSE 1 + SpaceRun(line, i + 1)

NoMatch == <<>>

\* `^TASK \[(.+?)\]` and `^PLAY \[(.+?)\]`: anchored at the start of the
\* line, the lazy group ends at the first "]" that leaves it non-empty.
PrefixBracket(line, prefix) ==
    IF Len(line) >= 3 /\ line[1] = prefix /\ \E k \in 3..Len(line) : line[k] = "]"
    THEN LET k == CHOOSE j \in 3..Len(line) :
                      /\ line[j] = "]"
                      /\ \A m \in 3..(j - 1) : line[m] # "]"
         IN  <<SubSeq(line, 2, k - 1)>>
    ELSE NoMatch

taskPattern(line) == PrefixBracket(line, "TASK [")

playPattern(line) == PrefixBracket(line, "PLAY [")

\* `(FAILED!|fatal:)`, unanchored
failedPattern(line) == \E k \in 1..Len(line) : line[k] \in {"FAILED!", "fatal:"}

\* `ok=(\d+)\s+changed=(\d+).*failed=(\d+)` tried at position i; the greedy
\* `.*` makes the last "failed=" followed by a digit the one that is taken.
RecapAt(line, i) ==
    LET d1 == DigitRun(line, i + 1)
        s1 == SpaceRun(line, i + 1 + d1)
        c  == i + 1 + d1 + s1
        d2 == DigitRun(line, c + 1)
        e2 == c + d2
        Fs == {j \in (e2 + 1)..Len(line) :
                  line[j] = "failed=" /\ DigitRun(line, j + 1) >= 1}
    IN  IF /\ line[i] = "ok="
           /\ d1 >= 1 /\ s1 >= 1
           /\ c <= Len(line) /\ line[c] = "changed="
           /\ d2 >= 1
           /\ Fs # {}
        THEN LET f == CHOOSE j \in Fs : \A m \in Fs : m <= j
             IN  <<SubSeq(line, i + 1, i + d1),
                   SubSeq(line, c + 1, e2),
                   SubSeq(line, f + 1, f + DigitRun(line, f + 1))>>
        ELSE NoMatch

\* the leftmost match of the recap pattern in the line
recapPattern(line) ==
    LET Is == {i \in 1..Len(line) : RecapAt(line, i) # NoMatch}
    IN  IF Is = {} THEN NoMatch
        ELSE RecapAt(line, CHOOSE i \in Is : \A m \in Is : i <= m)

\* strings.Contains(line, s) for the literals the executor looks for: the
\* atoms whose text contains s
Containing(s) ==
    CASE s = "FAILED"     -> {"FAILED!", "FAILED"}
      [] s = "fatal:"     -> {"fatal:"}
      [] s = "ok:"        -> {"ok:"}
      [] s = "skipping:"  -> {"skipping:"}
      [] s = "changed:"   -> {"changed:"}
      [] s = "PLAY ["     -> {"PLAY ["}
      [] s = "TASK ["     -> {"TASK ["}
      [] s = "PLAY RECAP" -> {"PLAY RECAP"}
      [] OTHER            -> {s}

Contains(line, s) == \E k \in 1..Len(line) : line[k] \in Containing(s)

(***************************************************************************)
(* The markers of the structured sub-results (parseDNSStatus, parseSSLInfo)*)
(***************************************************************************)
\* length of the longest run of non-blank atoms (`\S+`) that starts at i
RECURSIVE NonSpaceRun(_, _)
NonSpaceRun(line, i) ==
    IF i > Len(line) \/ IsSpace(line[i]) THEN 0
    ELSE 1 + NonSpaceRun(line, i + 1)

\* `key(\S+)` tried at position p: the length of the group, 0 when it fails
FieldAt(line, p, key) ==
    IF p <= Len(line) /\ line[p] = key THEN NonSpaceRun(line, p + 1) ELSE 0

\* `key1(\S+)\s+key2(\S+)...` tried at position p for the keys in their order:
\* the groups, NoMatch when a key, a group or the blanks between two fields
\* are missing
RECURSIVE FieldsAt(_, _, _)
FieldsAt(line, p, keys) ==
    LET n == FieldAt(line, p, keys[1])
        s == SpaceRun(line, p + 1 + n)
    IN  IF n = 0 THEN NoMatch
        ELSE IF Len(keys) = 1 THEN <<SubSeq(line, p + 1, p + n)>>
        ELSE IF s = 0 THEN NoMatch
        ELSE LET rest == FieldsAt(line, p + 1 + n + s, Tail(keys))
             IN  IF rest = NoMatch THEN NoMatch
                 ELSE <<SubSeq(line, p + 1, p + n)>> \o rest

\* `DNS_STATUS:\s*domain=(\S+)\s+resolved_ip=(\S+)\s+server_ip=(\S+)\s+matches=(\S+)`
\* tried at position i
dnsPatternAt(line, i) ==
    IF line[i] = "DNS_STATUS:"
    THEN FieldsAt(line, i + 1 + SpaceRun(line, i + 1),
                  <<"domain=", "resolved_ip=", "server_ip=", "matches=">>)
    ELSE NoMatch

\* the leftmost match of the pattern in the line: the pattern has no anchor
dnsPattern(line) ==
    LET Is == {i \in 1..Len(line) : dnsPatternAt(line, i) # NoMatch}
    IN  IF Is = {} THEN NoMatch
        ELSE dnsPatternAt(line, CHOOSE i \in Is : \A m \in Is : i <= m)

\* `SSL_ISSUED:\s*domain=(\S+)\s+expiry=(.+)$` tried at position i; the last
\* group takes the rest of the line, which must not be empty
sslPatternAt(line, i) ==
    LET a  == i + 1 + SpaceRun(line, i + 1)
        n1 == FieldAt(line, a, "domain=")
        s1 == SpaceRun(line, a + 1 + n1)
        b  == a + 1 + n1 + s1
    IN  IF /\ line[i] = "SSL_ISSUED:"
           /\ n1 >= 1 /\ s1 >= 1
           /\ b < Len(line) /\ line[b] = "expiry="
        THEN <<SubSeq(line, a + 1, a + n1), SubSeq(line, b + 1, Len(line))>>
        ELSE NoMatch

sslPattern(line) ==
    LET Is == {i \in 1..Len(line) : sslPatternAt(line, i) # NoMatch}
    IN  IF Is = {} THEN NoMatch
        ELSE sslPatternAt(line, CHOOSE i \in Is : \A m \in Is : i <= m)

\* strings.TrimSpace: the blanks at both ends are dropped
RECURSIVE TrimSpace(_)
TrimSpace(s) ==
    IF s = <<>> THEN s
    ELSE IF IsSpace(s[1]) THEN TrimSpace(Tail(s))
    ELSE IF IsSpace(s[Len(s)]) THEN TrimSpace(SubSeq(s, 1, Len(s) - 1))
    ELSE s

\* a nil *DNSStatus and a nil *SSLInfo
NoDNSStatus ==
    [nil |-> TRUE, Domain |-> <<>>, ResolvedIP |-> <<>>, ServerIP |-> <<>>,
     Matches |-> FALSE]

NoSSLInfo == [nil |-> TRUE, Domain |-> <<>>, Expiry |-> <<>>]

\* the first line of the output that matches the pattern, from index k on
RECURSIVE DNSStatusFrom(_, _)
DNSStatusFrom(output, k) ==
    IF k > Len(output) THEN NoDNSStatus
    ELSE LET matches == dnsPattern(output[k])
         IN  IF matches # NoMatch
             THEN [nil |-> FALSE,
                   Domain |-> matches[1],
                   ResolvedIP |-> matches[2],
                   ServerIP |-> matches[3],
                   Matches |-> matches[4] = <<"True">> \/ matches[4] = <<"true">>]
             ELSE DNSStatusFrom(output, k + 1)

\* parseDNSStatus that lets the last matching line win, as the recap does
parseDNSStatusLast(output) ==
    LET Ks == {k \in 1..Len(output) : dnsPattern(output[k]) # NoMatch}
    IN  IF Ks = {} THEN NoDNSStatus
        ELSE DNSStatusFrom(output, CHOOSE k \in Ks : \A m \in Ks : m <= k)

parseDNSStatus(output) == DNSStatusFrom(output, 1)

RECURSIVE SSLInfoFrom(_, _)
SSLInfoFrom(output, k) ==
    IF k > Len(output) THEN NoSSLInfo
    ELSE LET matches == sslPattern(output[k])
         IN  IF matches # NoMatch
             THEN [nil |-> FALSE, Domain |-> matches[1],
                   Expiry |-> TrimSpace(matches[2])]
             ELSE SSLInfoFrom(output, k + 1)

parseSSLInfo(output) == SSLInfoFrom(output, 1)

(***************************************************************************)
(* Inventory files (InventoryGenerator)                                    *)
(***************************************************************************)
Servers == {"web", "db"}

NoPath == <<>>

\* a file system is a function from the paths that exist to their content
NoFiles == [p \in {} |-> <<>>]

WriteFile(files, path, content) ==
    [p \in DOMAIN files \cup {path} |-> IF p = path THEN content ELSE files[p]]

RemoveFile(files, path) == [p \in DOMAIN files \ {path} |-> files[p]]

\* os.ExpandEnv: references to the environment are replaced by their value
ExpandEnv(val) == [k \in DOMAIN val |-> IF val[k] = "$HOME" THEN "/root" ELSE val[k]]

\* time.Now().Format("20060102-150405"): the wall clock cut to whole seconds
FormatTimestamp(t) == t \div TicksPerSecond

\* filepath.Join(outputDir, "wordsail-<name>-<timestamp>.ini")
OutputPath(name, t) ==
    <<"/tmp", "/", "wordsail-", name, "-">> \o FormatInt(FormatTimestamp(t)) \o <<".ini">>

GenFaults == {"none", "parse", "create", "execute"}

\* InventoryGenerator.Generate at instant t on the file system files; flt is
\* the step of it that fails, if any
Generate(server, command, globalVars, files, t, flt) ==
    LET varsMap    == [k \in DOMAIN globalVars |-> ExpandEnv(FormatInt(globalVars[k]))]
        outputPath == OutputPath(server.Name, t)
        data       == [Server |-> server, Command |-> command, GlobalVars |-> varsMap]
    IN  CASE flt = "parse" ->
               [path |-> NoPath, err |-> "failed to parse inventory template", files |-> files]
          [] flt = "create" ->
               [path |-> NoPath, err |-> "failed to create inventory file", files |-> files]
          [] flt = "execute" ->
               [path |-> NoPath, err |-> "failed to execute inventory template",
                files |-> WriteFile(files, outputPath, [data |-> data, complete |-> FALSE])]
          [] OTHER ->
               [path |-> outputPath, err |-> "nil",
                files |-> WriteFile(files, outputPath, [data |-> data, complete |-> TRUE])]

\* InventoryGenerator.Cleanup: os.Remove fails on a path that does not exist
Cleanup(inventoryPath, files) ==
    IF inventoryPath = NoPath THEN [err |-> "nil", files |-> files]
    ELSE IF inventoryPath \in DOMAIN files
         THEN [err |-> "nil", files |-> RemoveFile(files, inventoryPath)]
         ELSE [err |-> "no such file or directory", files |-> files]

(***************************************************************************)
(* The argument vector (Executor.ExecutePlaybook, ...WithResult)           *)
(***************************************************************************)
Keys == <<"a", "b", "c">>

KeySet == {Keys[k] : k \in 1..Len(Keys)}

Payloads == UNION {[S -> 1..MaxVal] : S \in SUBSET KeySet}

\* MergeVars with the two loops in the other order
MergeVarsGlobalLast(globalVars, extraVars) ==
    [k \in DOMAIN globalVars \cup DOMAIN extraVars |->
        IF k \in DOMAIN globalVars THEN globalVars[k] ELSE extraVars[k]]

\* allVars: the global variables first, then the call's variables over them
MergeVars(globalVars, extraVars) ==
    [k \in DOMAIN globalVars \cup DOMAIN extraVars |->
        IF k \in DOMAIN extraVars THEN extraVars[k] ELSE globalVars[k]]

\* json.Marshal of a map: an object with the members in key order
RECURSIVE MarshalFrom(_, _, _)
MarshalFrom(vars, k, first) ==
    IF k > Len(Keys) THEN <<>>
    ELSE IF Keys[k] \in DOMAIN vars
         THEN (IF first THEN <<>> ELSE <<",">>)
              \o <<Keys[k], ":">> \o FormatInt(vars[Keys[k]])
              \o MarshalFrom(vars, k + 1, FALSE)
         ELSE MarshalFrom(vars, k + 1, first)

Marshal(vars) == <<"{">> \o MarshalFrom(vars, 1, TRUE) \o <<"}">>

\* filepath.Join(ansiblePath, playbookName)
PlaybookPath(ansiblePath, playbookName) == <<ansiblePath, "/", playbookName>>

BuildArgs(playbookPath, inventoryPath, vb, dry, globalVars, extraVars) ==
    LET allVars == MergeVars(globalVars, extraVars)
    IN  <<playbookPath, <<"-i">>, inventoryPath>>
        \o (IF vb THEN <<<<"-vv">>>> ELSE <<>>)
        \o (IF dry THEN <<<<"--check">>>> ELSE <<>>)
        \o (IF DOMAIN allVars # {}
            THEN <<<<"--extra-vars">>, Marshal(allVars)>>
            ELSE <<>>)

(***************************************************************************)
(* Output of the subprocess                                                *)
(***************************************************************************)
TaskLine == <<"TASK [", "nginx", "]">>

FatalLine == <<"fatal:", " ", "[web]:", " ", "FAILED!">>

RecapOk == <<"web", " ", "ok=", "2", " ", "changed=", "1", " ",
             "unreachable=", "0", " ", "failed=", "0">>

RecapFailed == <<"web", " ", "ok=", "1", " ", "changed=", "0", " ",
                 "unreachable=", "0", " ", "failed=", "1">>

WarnLine == <<"[WARNING]:", " ", "deprecated">>

\* the line of a task that went well, and the header of a second task
OkLine == <<"ok:", " ", "[web]">>

TaskLine2 == <<"TASK [", "php", "]">>

\* a line of more bytes than the buffer of a bufio.Scanner takes
\* (bufio.MaxScanTokenSize, 64 KiB)
LongLine == <<"a * 65537">>

TooLong(line) == line = LongLine

OutLines == {TaskLine, FatalLine, RecapOk, RecapFailed}

ErrLines == {WarnLine, FatalLine}

Streams == {"stdout", "stderr"}

\* the line the playbooks print for a domain check, with a given value of
\* the last field
DnsLine(v) ==
    <<"DNS_STATUS:", " ", "domain=", "example.com", " ", "resolved_ip=", "1.2.3.4",
      " ", "server_ip=", "5.6.7.8", " ", "matches=", v>>

\* a domain check line without its server_ip field
DnsNoServer ==
    <<"DNS_STATUS:", " ", "domain=", "example.com", " ", "resolved_ip=", "1.2.3.4",
      " ", "matches=", "true">>

SslLine ==
    <<"SSL_ISSUED:", " ", "domain=", "example.com", " ", "expiry=", "2026-02-04">>

\* certificate lines without an expiry: the field missing, and the field
\* followed by a blank only
SslNoExpiry == <<"SSL_ISSUED:", " ", "domain=", "example.com">>

SslBlankExpiry ==
    <<"SSL_ISSUED:", " ", "domain=", "example.com", " ", "expiry=", " ">>

MatchValues == {"true", "True", "TRUE", "false", "False", "FALSE", "maybe"}

\* the two marker texts after other characters of the line, as a debug task
\* prints its msg
MsgDnsLine == <<"msg:", " ">> \o DnsLine("true")

MsgSslLine == <<"msg:", " ">> \o SslLine

MarkerLines ==
    {DnsLine(v) : v \in MatchValues}
    \cup {DnsNoServer, SslLine, SslNoExpiry, SslBlankExpiry, FatalLine, RecapOk}
    \cup {MsgDnsLine, MsgSslLine}

(***************************************************************************)
(* Line classification (the reader goroutines of executeWithSpinner and    *)
(* executeWithSpinnerAndResult)                                            *)
(***************************************************************************)
\* MarkFailed as an assignment of the match: failed = failedPattern.MatchString(line)
MarkFailedAssign(flag, line) == failedPattern(line)

\* if failedPattern.MatchString(line) { failed = true }
MarkFailed(flag, line) == flag \/ failedPattern(line)

\* ParseRecap that never takes the failed counter down
ParseRecapKeepFailed(res, line) ==
    LET m == recapPattern(line)
    IN  IF m # NoMatch
        THEN [Ok |-> Sscanf(m[1]), Changed |-> Sscanf(m[2]),
              Failed |-> IF res.Failed > Sscanf(m[3]) THEN res.Failed ELSE Sscanf(m[3])]
        ELSE res

\* the recap counters after a line: overwritten when the line is a recap
ParseRecap(res, line) ==
    LET m == recapPattern(line)
    IN  IF m # NoMatch
        THEN [Ok |-> Sscanf(m[1]), Changed |-> Sscanf(m[2]), Failed |-> Sscanf(m[3])]
        ELSE res

\* e.spinner.Suffix after a stdout line
SpinnerSuffix(suffix, line) ==
    IF taskPattern(line) # NoMatch THEN <<" ">> \o taskPattern(line)[1]
    ELSE IF playPattern(line) # NoMatch THEN <<" ">> \o playPattern(line)[1]
    ELSE suffix

CurrentTask(task, line) ==
    IF taskPattern(line) # NoMatch THEN taskPattern(line)[1] ELSE task

\* the colour streamOutput prints a line in
StreamColor(line, isError) ==
    IF isError THEN "red"
    ELSE IF Contains(line, "FAILED") \/ Contains(line, "fatal:") THEN "red"
    ELSE IF Contains(line, "ok:") \/ Contains(line, "skipping:") THEN "green"
    ELSE IF Contains(line, "changed:") THEN "yellow"
    ELSE IF Contains(line, "PLAY [") \/ Contains(line, "TASK [") THEN "cyan"
    ELSE IF Contains(line, "PLAY RECAP") THEN "magenta"
    ELSE "plain"

(***************************************************************************)
(* The verdict and the diagnostic excerpt                                  *)
(***************************************************************************)
\* RunFailed without the recap counter
RunFailedNoRecap(waitErr, flag, res) == waitErr \/ flag

\* cmdErr != nil || failed || result.Failed > 0
RunFailed(waitErr, flag, res) == waitErr \/ flag \/ res.Failed > 0

maxContextLines == 15

\* `(?i)(FAILED|fatal:|TASK \[)`: the atoms whose text matches in any case
ErrorContextAtoms ==
    {"FAILED!", "FAILED", "failed=", "failed:", "fatal:", "FATAL:", "TASK [", "task ["}

\* ErrorContextMatch for the pattern `(?i)(FAILED|fatal:)`
ErrorContextMatchNoTask(line) ==
    \E k \in 1..Len(line) : line[k] \in ErrorContextAtoms \ {"TASK [", "task ["}

ErrorContextMatch(line) == \E k \in 1..Len(line) : line[k] \in ErrorContextAtoms

ContextColor(line) ==
    IF Contains(line, "FAILED") \/ Contains(line, "fatal:") THEN "red"
    ELSE IF Contains(line, "TASK [") THEN "cyan"
    ELSE "plain"

\* the loop of printErrorContext over outputBuffer from index k on
RECURSIVE ContextFrom(_, _, _, _)
ContextFrom(buf, k, inErrorContext, contextLines) ==
    IF k > Len(buf) THEN <<>>
    ELSE LET line == buf[k]
             hit  == ErrorContextMatch(line)
             in1  == inErrorContext \/ hit
             n1   == IF hit THEN 0 ELSE contextLines
             n2   == n1 + 1
             in2  == ~(n2 > maxContextLines
                       /\ ~Contains(line, "fatal:") /\ ~Contains(line, "FAILED"))
         IN  IF in1
             THEN <<[color |-> ContextColor(line), text |-> line]>>
                  \o ContextFrom(buf, k + 1, in2, n2)
             ELSE ContextFrom(buf, k + 1, FALSE, n1)

printErrorContext(outBuf, errBuf) ==
    [k \in 1..Len(errBuf) |-> [color |-> "red", text |-> errBuf[k]]]
    \o ContextFrom(outBuf, 1, FALSE, 0)

Counters(res) ==
    FormatInt(res.Ok) \o <<" ok, ">> \o FormatInt(res.Changed) \o <<" changed, ">>
    \o FormatInt(res.Failed) \o <<" failed">>

\* what the quiet path prints once the verdict is known
Summary(bad, task, res, outBuf, errBuf) ==
    IF bad
    THEN <<[color |-> "red", text |-> <<"Task failed: ">> \o task]>>
         \o printErrorContext(outBuf, errBuf)
         \o <<[color |-> "red", text |-> <<"Failed: ">> \o Counters(res)]>>
    ELSE <<[color |-> "green", text |-> <<"Completed: ">> \o Counters(res)]>>

(***************************************************************************)
(* The persisted configuration and the state manager (package state)       *)
(***************************************************************************)
SiteIDs == {"blog"}

DomainNames == {"example.com", "www.example.com"}

\* the configuration after `wordsail init` and `server add`: one server
\* that is not provisioned yet
InitialConfig ==
    [Servers |-> <<[Name |-> "web", Status |-> "unprovisioned",
                    HasPassword |-> FALSE, Sites |-> <<>>]>>]

\* the index of the first server of the configuration with the name, 0
\* when there is none
ServerIndex(cfg, serverName) ==
    LET Is == {i \in 1..Len(cfg.Servers) : cfg.Servers[i].Name = serverName}
    IN  IF Is = {} THEN 0 ELSE CHOOSE i \in Is : \A m \in Is : i <= m

\* the index of the first site of a server with the identifier, 0 when
\* there is none
SiteIndex(srv, siteID) ==
    LET Js == {j \in 1..Len(srv.Sites) : srv.Sites[j].SiteID = siteID}
    IN  IF Js = {} THEN 0 ELSE CHOOSE j \in Js : \A m \in Js : j <= m

\* the index of the first domain of a site with the name, 0 when there is
\* none
DomainIndex(site, domainName) ==
    LET Ks == {k \in 1..Len(site.Domains) : site.Domains[k].Domain = domainName}
    IN  IF Ks = {} THEN 0 ELSE CHOOSE k \in Ks : \A m \in Ks : k <= m

\* Manager.MarkServerProvisioned: Load, the update, Save
MarkServerProvisioned(cfg, serverName) ==
    LET i == ServerIndex(cfg, serverName)
    IN  IF i = 0 THEN [err |-> "server not found", cfg |-> cfg]
        ELSE [err |-> "nil", cfg |-> [cfg EXCEPT !.Servers[i].Status = "provisioned"]]

MarkServerError(cfg, serverName) ==
    LET i == ServerIndex(cfg, serverName)
    IN  IF i = 0 THEN [err |-> "server not found", cfg |-> cfg]
        ELSE [err |-> "nil", cfg |-> [cfg EXCEPT !.Servers[i].Status = "error"]]

\* AddSiteToServer that adds the server when there is none of the name
AddSiteToServerCreate(cfg, serverName, site) ==
    LET i == ServerIndex(cfg, serverName)
    IN  IF i = 0
        THEN [err |-> "nil",
              cfg |-> [cfg EXCEPT !.Servers =
                          Append(@, [Name |-> serverName, Status |-> "unprovisioned",
                                     HasPassword |-> FALSE, Sites |-> <<site>>])]]
        ELSE [err |-> "nil",
              cfg |-> [cfg EXCEPT !.Servers[i].Sites = Append(@, site)]]

AddSiteToServer(cfg, serverName, site) ==
    LET i == ServerIndex(cfg, serverName)
    IN  IF i = 0 THEN [err |-> "server not found", cfg |-> cfg]
        ELSE [err |-> "nil",
              cfg |-> [cfg EXCEPT !.Servers[i].Sites = Append(@, site)]]

RemoveSiteFromServer(cfg, serverName, siteID) ==
    LET i == ServerIndex(cfg, serverName)
        Keep(site) == site.SiteID # siteID
    IN  IF i = 0 \/ SiteIndex(cfg.Servers[i], siteID) = 0
        THEN [err |-> "site not found", cfg |-> cfg]
        ELSE [err |-> "nil",
              cfg |-> [cfg EXCEPT !.Servers[i].Sites = SelectSeq(@, Keep)]]

AddDomainToSite(cfg, serverName, siteID, domain) ==
    LET i == ServerIndex(cfg, serverName)
        j == IF i = 0 THEN 0 ELSE SiteIndex(cfg.Servers[i], siteID)
    IN  IF j = 0 THEN [err |-> "site not found", cfg |-> cfg]
        ELSE [err |-> "nil",
              cfg |-> [cfg EXCEPT !.Servers[i].Sites[j].Domains = Append(@, domain)]]

RemoveDomainFromSite(cfg, serverName, siteID, domainName) ==
    LET i == ServerIndex(cfg, serverName)
        j == IF i = 0 THEN 0 ELSE SiteIndex(cfg.Servers[i], siteID)
        Keep(d) == d.Domain # domainName
    IN  IF j = 0 \/ DomainIndex(cfg.Servers[i].Sites[j], domainName) = 0
        THEN [err |-> "domain not found", cfg |-> cfg]
        ELSE [err |-> "nil",
              cfg |-> [cfg EXCEPT !.Servers[i].Sites[j].Domains = SelectSeq(@, Keep)]]

UpdateDomainSSL(cfg, serverName, siteID, domainName, updatedDomain) ==
    LET i == ServerIndex(cfg, serverName)
        j == IF i = 0 THEN 0 ELSE SiteIndex(cfg.Servers[i], siteID)
        k == IF j = 0 THEN 0 ELSE DomainIndex(cfg.Servers[i].Sites[j], domainName)
    IN  IF k = 0 THEN [err |-> "domain not found", cfg |-> cfg]
        ELSE [err |-> "nil",
              cfg |-> [cfg EXCEPT !.Servers[i].Sites[j].Domains[k] = updatedDomain]]

\* no CLI command is running
NoCommand ==
    [name |-> "none", pc |-> "idle", ServerName |-> "", SiteID |-> "", Domain |-> "",
     IssueSSL |-> FALSE]

(***************************************************************************)
(* State                                                                   *)
(***************************************************************************)
VARIABLES
    api,            \* the entry point called
    verbose,        \* Executor.verbose
    dryRun,         \* Executor.dryRun
    server,         \* the target of the call
    globalVars,     \* the global variables of the call
    extraVars,      \* the call's own variables
    fault,          \* the step of the call the environment makes fail
    playbookExists, \* whether os.Stat finds the playbook
    now,            \* the wall clock
    fs,             \* the files under the output directory
    pc,             \* where the calling goroutine stands
    inventoryPath,  \* the path Generate returned
    args,           \* the argument vector of the subprocess
    spinner,        \* e.spinner: running or not, and its suffix
    console,        \* what has been printed
    started,        \* cmd.Start succeeded
    exitCode,       \* the exit code of the subprocess
    exited,         \* the subprocess has exited
    program,        \* the lines the subprocess has written, per stream
    wrClosed,       \* the subprocess closed its end of the pipe, per stream
    pipe,           \* the lines in flight, per stream
    rdClosed,       \* the parent's end of the pipe is closed, per stream
    rdr,            \* where the reader goroutine of each stream stands
    cur,            \* the line each reader holds
    ended,          \* how each reader's scanner stopped
    mu,             \* the holder of the mutex
    done,           \* the signals buffered in the done channel
    outputBuffer,
    errorBuffer,
    result,         \* ExecutionResult: the recap counters
    currentTask,
    failed,         \* the failure flag
    cmdErr,         \* cmd.Wait returned an error
    retErr,         \* the error the call returned
    retResult,      \* the *PlaybookResult the call returned
    held,           \* per user of the generator: the path it was given
    lastCleanup,    \* the last call of Cleanup: path, whether it existed, error
    alphabet,       \* the lines the subprocess may write, per stream
    blocked,        \* the subprocess is inside a write to a full pipe, per stream
    config,         \* the persisted configuration (wordsail.yaml)
    cmd,            \* the CLI command that is running, and where it stands
    exitStatus,     \* the exit status of the last CLI command
    prev,           \* the call made before this one on the same subprocess
    disk,           \* the configuration directory: names, and the files' bytes
    saver,          \* per caller of config.Manager.Save: where it stands
    loaded,         \* what the last config.Manager.Load read
    lastOp          \* the last state-manager operation, and what it was given

reqVars == <<api, verbose, dryRun, server, globalVars, extraVars, fault, playbookExists,
             alphabet>>

childVars == <<exitCode, exited, program, wrClosed, pipe, blocked>>

readerVars == <<rdr, cur, ended, mu, done, outputBuffer, errorBuffer, result,
                currentTask, failed>>

callVars == <<pc, inventoryPath, args, spinner, console, started, rdClosed,
              cmdErr, retErr, retResult>>

genVars == <<held, lastCleanup>>

cliVars == <<config, cmd, exitStatus, prev, disk, saver, loaded, lastOp>>

vars == <<reqVars, now, fs, callVars, childVars, readerVars, genVars, cliVars>>

Apis == {"ExecutePlaybook", "ExecutePlaybookWithResult"}

Faults == GenFaults \cup {"home", "stdoutPipe", "stderrPipe", "start"}

Callers == 1..NumCallers

NilResult ==
    [nil |-> TRUE, Success |-> FALSE, Output |-> <<>>,
     DNSStatus |-> NoDNSStatus, SSLInfo |-> NoSSLInfo]

NoCleanup == [path |-> NoPath, existed |-> FALSE, err |-> "nil"]

\* no earlier call
NoCall == [called |-> FALSE, api |-> "", err |-> "nil", args |-> <<>>]

\* the content of a file, as the units a reader tells apart: who wrote the
\* unit and which unit of the writer's data it is
Content(by, n) == [i \in 1..n |-> [by |-> by, part |-> i]]

\* the bytes of wordsail.yaml before any Save of the model
OldData == Content(0, 2)

\* the configuration directory holds wordsail.yaml and no temporary file:
\* the names with the file each refers to (0: no such name), and the files
IdleDisk == [names |-> [n \in {"config", "tmp"} |-> IF n = "config" THEN 1 ELSE 0],
             data |-> <<OldData>>]

IdleSaver == [pc |-> "idle", ino |-> 0, saves |-> 0, err |-> "nil"]

NoLoad == [read |-> FALSE, data |-> <<>>]

NoOp == [op |-> "none", serverName |-> "", siteID |-> "", domainName |-> "",
         err |-> "nil", saved |-> FALSE, before |-> InitialConfig]

\* the store is at rest: no second call, no Save or Load under way, no
\* state-manager operation applied
StoreIdle ==
    /\ prev = NoCall
    /\ disk = IdleDisk
    /\ saver = [c \in Callers |-> IdleSaver]
    /\ loaded = NoLoad
    /\ lastOp = NoOp

\* the executor and the inventory generator before the first step of a call
FreshCall ==
    /\ pc = "call"
    /\ inventoryPath = NoPath
    /\ args = <<>>
    /\ spinner = [active |-> FALSE, Suffix |-> <<>>]
    /\ console = <<>>
    /\ started = FALSE
    /\ exitCode = 0
    /\ exited = FALSE
    /\ program = [s \in Streams |-> <<>>]
    /\ wrClosed = [s \in Streams |-> FALSE]
    /\ pipe = [s \in Streams |-> <<>>]
    /\ rdClosed = [s \in Streams |-> FALSE]
    /\ rdr = [s \in Streams |-> "idle"]
    /\ cur = [s \in Streams |-> <<>>]
    /\ ended = [s \in Streams |-> "no"]
    /\ mu = "free"
    /\ done = 0
    /\ outputBuffer = <<>>
    /\ errorBuffer = <<>>
    /\ result = [Ok |-> 0, Changed |-> 0, Failed |-> 0]
    /\ currentTask = <<>>
    /\ failed = FALSE
    /\ cmdErr = FALSE
    /\ retErr = "nil"
    /\ retResult = NilResult
    /\ held = [c \in Callers |-> NoPath]
    /\ lastCleanup = NoCleanup
    /\ blocked = [s \in Streams |-> FALSE]

\* the state of a call before its first step, with the configuration after
\* `wordsail init` and `server add` and no command running
Fresh ==
    /\ FreshCall
    /\ config = InitialConfig
    /\ cmd = NoCommand
    /\ exitStatus = 0
    /\ StoreIdle

Init ==
    /\ api \in Apis
    /\ verbose \in BOOLEAN
    /\ dryRun = FALSE
    /\ server = [Name |-> "web"]
    /\ globalVars = [k \in {"a", "b"} |-> IF k = "a" THEN 1 ELSE 2]
    /\ extraVars = [k \in {"b"} |-> 3]
    /\ fault \in Faults
    /\ playbookExists \in BOOLEAN
    /\ alphabet = [s \in Streams |-> IF s = "stdout" THEN OutLines ELSE ErrLines]
    /\ now = 0
    /\ fs = NoFiles
    /\ Fresh

\* the verbose branch exists in ExecutePlaybook only
Quiet == api = "ExecutePlaybookWithResult" \/ ~verbose

(***************************************************************************)
(* The call up to the launch of the subprocess                             *)
(***************************************************************************)
PlaybookName == "site.yml"

AnsiblePath == "/opt/wordsail/ansible"

\* Deferred with the defer statement left out
DeferredMissing(files) == files

\* the deferred e.invGenerator.Cleanup(inventoryPath), run as the call returns
Deferred(files) == Cleanup(inventoryPath, files).files

\* GenerateInventory with the error of Generate ignored
GenerateInventoryIgnoreError ==
    /\ pc = "call"
    /\ IF fault = "home"
       THEN /\ retErr' = "failed to expand home directory"
            /\ pc' = "done"
            /\ UNCHANGED <<fs, inventoryPath>>
       ELSE LET g == Generate(server, <<"wordsail ", PlaybookName>>, globalVars, fs, now,
                              IF fault \in GenFaults THEN fault ELSE "none")
            IN  /\ fs' = g.files
                /\ inventoryPath' = g.path
                /\ pc' = "stat"
                /\ UNCHANGED retErr
    /\ UNCHANGED <<reqVars, now, args, spinner, console, started, rdClosed, cmdErr,
                   retResult, childVars, readerVars, genVars, cliVars>>

\* home-directory expansion, Generate and the registration of the cleanup
GenerateInventory ==
    /\ pc = "call"
    /\ IF fault = "home"
       THEN /\ retErr' = "failed to expand home directory"
            /\ pc' = "done"
            /\ UNCHANGED <<fs, inventoryPath>>
       ELSE LET g == Generate(server, <<"wordsail ", PlaybookName>>, globalVars, fs, now,
                              IF fault \in GenFaults THEN fault ELSE "none")
            IN  /\ fs' = g.files
                /\ IF g.err # "nil"
                   THEN /\ retErr' = "failed to generate inventory"
                        /\ pc' = "done"
                        /\ UNCHANGED inventoryPath
                   ELSE /\ inventoryPath' = g.path
                        /\ pc' = "stat"
                        /\ UNCHANGED retErr
    /\ UNCHANGED <<reqVars, now, args, spinner, console, started, rdClosed, cmdErr,
                   retResult, childVars, readerVars, genVars, cliVars>>

\* CheckPlaybook without the os.Stat test
CheckPlaybookNoStat ==
    /\ pc = "stat"
    /\ args' = BuildArgs(PlaybookPath(AnsiblePath, PlaybookName), inventoryPath,
                         verbose, dryRun, globalVars, extraVars)
    /\ pc' = "pipes"
    /\ UNCHANGED <<reqVars, now, fs, inventoryPath, spinner, console, started,
                   rdClosed, cmdErr, retErr, retResult, childVars, readerVars,
                   genVars, cliVars>>

\* os.Stat of the playbook, then the argument vector
CheckPlaybook ==
    /\ pc = "stat"
    /\ IF ~playbookExists
       THEN /\ retErr' = "playbook not found"
            /\ fs' = Deferred(fs)
            /\ pc' = "done"
            /\ UNCHANGED args
       ELSE /\ args' = BuildArgs(PlaybookPath(AnsiblePath, PlaybookName), inventoryPath,
                                 verbose, dryRun, globalVars, extraVars)
            /\ pc' = "pipes"
            /\ UNCHANGED <<retErr, fs>>
    /\ UNCHANGED <<reqVars, now, inventoryPath, spinner, console, started, rdClosed,
                   cmdErr, retResult, childVars, readerVars, genVars, cliVars>>

\* exec.Command, cmd.StdoutPipe and cmd.StderrPipe
CreatePipes ==
    /\ pc = "pipes"
    /\ IF fault \in {"stdoutPipe", "stderrPipe"}
       THEN /\ retErr' = IF fault = "stdoutPipe" THEN "failed to create stdout pipe"
                         ELSE "failed to create stderr pipe"
            /\ fs' = Deferred(fs)
            /\ pc' = "done"
       ELSE /\ pc' = IF Quiet THEN "spin" ELSE "vstart"
            /\ UNCHANGED <<retErr, fs>>
    /\ UNCHANGED <<reqVars, now, inventoryPath, args, spinner, console, started,
                   rdClosed, cmdErr, retResult, childVars, readerVars, genVars, cliVars>>

\* cmd.Start succeeded: the subprocess exists and the goroutines are started
Launch ==
    /\ started' = TRUE
    /\ rdr' = [s \in Streams |-> "scan"]

\* executeWithSpinner / executeWithSpinnerAndResult: the spinner is made
\* and started
StartSpinner ==
    /\ pc = "spin"
    /\ spinner' = [active |-> TRUE, Suffix |-> <<" Starting...">>]
    /\ pc' = "start"
    /\ UNCHANGED <<reqVars, now, fs, inventoryPath, args, console, started, rdClosed,
                   cmdErr, retErr, retResult, childVars, readerVars, genVars, cliVars>>

\* StartQuiet with the spinner left running when cmd.Start fails
StartQuietNoStop ==
    /\ pc = "start"
    /\ IF fault = "start"
       THEN /\ retErr' = "failed to start ansible-playbook"
            /\ fs' = Deferred(fs)
            /\ pc' = "done"
            /\ UNCHANGED <<started, rdr>>
       ELSE /\ Launch
            /\ pc' = "recv1"
            /\ UNCHANGED <<retErr, fs>>
    /\ UNCHANGED <<reqVars, now, inventoryPath, args, spinner, console, rdClosed, cmdErr,
                   retResult, childVars, cur, ended, mu, done,
                   outputBuffer, errorBuffer, result, currentTask, failed, genVars, cliVars>>

\* executeWithSpinner / executeWithSpinnerAndResult: cmd.Start, and on its
\* failure the stop of the spinner and the return; else the two goroutines
StartQuiet ==
    /\ pc = "start"
    /\ IF fault = "start"
       THEN /\ spinner' = [spinner EXCEPT !.active = FALSE]
            /\ retErr' = "failed to start ansible-playbook"
            /\ fs' = Deferred(fs)
            /\ pc' = "done"
            /\ UNCHANGED <<started, rdr>>
       ELSE /\ Launch
            /\ pc' = "recv1"
            /\ UNCHANGED <<retErr, fs, spinner>>
    /\ UNCHANGED <<reqVars, now, inventoryPath, args, console, rdClosed, cmdErr,
                   retResult, childVars, cur, ended, mu, done,
                   outputBuffer, errorBuffer, result, currentTask, failed, genVars, cliVars>>

\* the verbose branch of ExecutePlaybook up to the two goroutines
StartVerbose ==
    /\ pc = "vstart"
    /\ console' = Append(console, [color |-> "cyan",
                                   text |-> <<"Running: ansible-playbook">>])
    /\ IF fault = "start"
       THEN /\ retErr' = "failed to start ansible-playbook"
            /\ fs' = Deferred(fs)
            /\ pc' = "done"
            /\ UNCHANGED <<started, rdr>>
       ELSE /\ Launch
            /\ pc' = "vrecv"
            /\ UNCHANGED <<retErr, fs>>
    /\ UNCHANGED <<reqVars, now, inventoryPath, args, spinner, rdClosed, cmdErr,
                   retResult, childVars, cur, ended, mu, done,
                   outputBuffer, errorBuffer, result, currentTask, failed, genVars, cliVars>>

(***************************************************************************)
(* The subprocess                                                          *)
(***************************************************************************)
\* the lines the subprocess may write to a stream, and how many at most
LinesOf(s) == alphabet[s]

MaxLines(s) == IF s = "stdout" THEN MaxOut ELSE MaxErr

\* the subprocess writes one more line to a pipe that has room
ChildWrite(s) ==
    /\ started /\ ~exited /\ ~wrClosed[s]
    /\ Len(program[s]) < MaxLines(s)
    /\ Len(pipe[s]) < PipeCap
    /\ \E line \in LinesOf(s) :
          /\ pipe' = [pipe EXCEPT ![s] = Append(@, line)]
          /\ program' = [program EXCEPT ![s] = Append(@, line)]
    /\ blocked' = [blocked EXCEPT ![s] = FALSE]
    /\ UNCHANGED <<reqVars, now, fs, callVars, exitCode, exited, wrClosed,
                   readerVars, genVars, cliVars>>

\* the subprocess starts a write to a pipe that is full: it stays inside the
\* write until the reader has made room
ChildBlock(s) ==
    /\ started /\ ~exited /\ ~wrClosed[s]
    /\ ~blocked[s]
    /\ Len(program[s]) < MaxLines(s)
    /\ Len(pipe[s]) >= PipeCap
    /\ blocked' = [blocked EXCEPT ![s] = TRUE]
    /\ UNCHANGED <<reqVars, now, fs, callVars, exitCode, exited, program, wrClosed,
                   pipe, readerVars, genVars, cliVars>>

\* the subprocess closes a stream
ChildClose(s) ==
    /\ started /\ ~exited /\ ~wrClosed[s]
    /\ ~blocked[s]
    /\ wrClosed' = [wrClosed EXCEPT ![s] = TRUE]
    /\ UNCHANGED <<reqVars, now, fs, callVars, exitCode, exited, program, pipe,
                   blocked, readerVars, genVars, cliVars>>

\* the subprocess exits, with some exit code
ChildExit ==
    /\ started /\ ~exited
    /\ \A s \in Streams : wrClosed[s]
    /\ exited' = TRUE
    /\ exitCode' \in {0, 1}
    /\ UNCHANGED <<reqVars, now, fs, callVars, program, wrClosed, pipe, blocked,
                   readerVars, genVars, cliVars>>

(***************************************************************************)
(* The reader goroutines                                                   *)
(***************************************************************************)
\* scanner.Scan on a stream: the next line, or the end of the loop at the
\* end of the stream, on a read from a file that Wait has closed, or on a
\* line that does not fit the buffer of the scanner (bufio.ErrTooLong); the
\* rest of such a line is left in the pipe
ScanOutcome(s) ==
    IF rdClosed[s] THEN "error"
    ELSE IF pipe[s] # <<>> THEN IF TooLong(Head(pipe[s])) THEN "error" ELSE "line"
    ELSE IF wrClosed[s] THEN "eof"
    ELSE "block"

\* quiet path: scanner.Scan in either goroutine
Scan(s) ==
    /\ Quiet
    /\ rdr[s] = "scan"
    /\ ScanOutcome(s) # "block"
    /\ IF ScanOutcome(s) = "line"
       THEN /\ cur' = [cur EXCEPT ![s] = Head(pipe[s])]
            /\ pipe' = [pipe EXCEPT ![s] = Tail(@)]
            /\ rdr' = [rdr EXCEPT ![s] = "lock"]
            /\ UNCHANGED ended
       ELSE /\ ended' = [ended EXCEPT ![s] = ScanOutcome(s)]
            /\ rdr' = [rdr EXCEPT ![s] = "send"]
            /\ UNCHANGED <<cur, pipe>>
    /\ UNCHANGED <<reqVars, now, fs, callVars, exitCode, exited, program,
                   wrClosed, blocked, mu, done, outputBuffer, errorBuffer, result,
                   currentTask, failed, genVars, cliVars>>

\* Lock without the wait for the mutex
LockNoMutex(s) ==
    /\ rdr[s] = "lock"
    /\ mu' = s
    /\ rdr' = [rdr EXCEPT ![s] = "locked"]
    /\ UNCHANGED <<reqVars, now, fs, callVars, childVars, cur, ended, done,
                   outputBuffer, errorBuffer, result, currentTask, failed, genVars,
                   cliVars>>

\* mu.Lock()
Lock(s) ==
    /\ rdr[s] = "lock"
    /\ mu = "free"
    /\ mu' = s
    /\ rdr' = [rdr EXCEPT ![s] = "locked"]
    /\ UNCHANGED <<reqVars, now, fs, callVars, childVars, cur, ended, done,
                   outputBuffer, errorBuffer, result, currentTask, failed, genVars, cliVars>>

\* ProcessStdout with the line put in front of the buffer
ProcessStdoutPrepend ==
    /\ rdr["stdout"] = "locked"
    /\ LET line == cur["stdout"]
       IN  /\ outputBuffer' = <<line>> \o outputBuffer
           /\ currentTask' = CurrentTask(currentTask, line)
           /\ spinner' = [spinner EXCEPT !.Suffix = SpinnerSuffix(@, line)]
           /\ failed' = MarkFailed(failed, line)
           /\ result' = ParseRecap(result, line)
    /\ mu' = "free"
    /\ rdr' = [rdr EXCEPT !["stdout"] = "scan"]
    /\ UNCHANGED <<reqVars, now, fs, pc, inventoryPath, args, console, started,
                   rdClosed, cmdErr, retErr, retResult, childVars, cur, ended, done,
                   errorBuffer, genVars, cliVars>>

\* the body of the stdout loop, up to mu.Unlock()
ProcessStdout ==
    /\ rdr["stdout"] = "locked"
    /\ LET line == cur["stdout"]
       IN  /\ outputBuffer' = Append(outputBuffer, line)
           /\ currentTask' = CurrentTask(currentTask, line)
           /\ spinner' = [spinner EXCEPT !.Suffix = SpinnerSuffix(@, line)]
           /\ failed' = MarkFailed(failed, line)
           /\ result' = ParseRecap(result, line)
    /\ mu' = "free"
    /\ rdr' = [rdr EXCEPT !["stdout"] = "scan"]
    /\ UNCHANGED <<reqVars, now, fs, pc, inventoryPath, args, console, started,
                   rdClosed, cmdErr, retErr, retResult, childVars, cur, ended, done,
                   errorBuffer, genVars, cliVars>>

\* the body of the stderr loop, up to mu.Unlock()
ProcessStderr ==
    /\ rdr["stderr"] = "locked"
    /\ LET line == cur["stderr"]
       IN  /\ errorBuffer' = Append(errorBuffer, line)
           /\ failed' = MarkFailed(failed, line)
    /\ mu' = "free"
    /\ rdr' = [rdr EXCEPT !["stderr"] = "scan"]
    /\ UNCHANGED <<reqVars, now, fs, callVars, childVars, cur, ended, done,
                   outputBuffer, result, currentTask, genVars, cliVars>>

\* done <- true on the channel of capacity two
SendDone(s) ==
    /\ Quiet
    /\ rdr[s] = "send"
    /\ done < 2
    /\ done' = done + 1
    /\ rdr' = [rdr EXCEPT ![s] = "end"]
    /\ UNCHANGED <<reqVars, now, fs, callVars, childVars, cur, ended, mu,
                   outputBuffer, errorBuffer, result, currentTask, failed, genVars, cliVars>>

\* verbose branch: one turn of the loop of streamOutput; at the end of the
\* loop the stdout goroutine goes on to send, the stderr goroutine ends
StreamOutput(s) ==
    /\ ~Quiet
    /\ rdr[s] = "scan"
    /\ ScanOutcome(s) # "block"
    /\ IF ScanOutcome(s) = "line"
       THEN /\ console' = Append(console,
                   [color |-> StreamColor(Head(pipe[s]), s = "stderr"),
                    text |-> Head(pipe[s])])
            /\ pipe' = [pipe EXCEPT ![s] = Tail(@)]
            /\ UNCHANGED <<rdr, ended>>
       ELSE /\ ended' = [ended EXCEPT ![s] = ScanOutcome(s)]
            /\ rdr' = [rdr EXCEPT ![s] = IF s = "stdout" THEN "send" ELSE "end"]
            /\ UNCHANGED <<console, pipe>>
    /\ UNCHANGED <<reqVars, now, fs, pc, inventoryPath, args, spinner, started,
                   rdClosed, cmdErr, retErr, retResult, exitCode, exited, program,
                   wrClosed, blocked, cur, mu, done, outputBuffer, errorBuffer, result,
                   currentTask, failed, genVars, cliVars>>

(***************************************************************************)
(* The call from the launch to its return                                  *)
(***************************************************************************)
\* RecvDone with a single receive before cmd.Wait
RecvDoneOnce ==
    /\ pc \in {"recv1", "recv2"}
    /\ done > 0
    /\ done' = done - 1
    /\ pc' = "wait"
    /\ UNCHANGED <<reqVars, now, fs, inventoryPath, args, spinner, console, started,
                   rdClosed, cmdErr, retErr, retResult, childVars, rdr, cur, ended,
                   mu, outputBuffer, errorBuffer, result, currentTask, failed,
                   genVars, cliVars>>

\* quiet path: <-done, twice
RecvDone ==
    /\ pc \in {"recv1", "recv2"}
    /\ done > 0
    /\ done' = done - 1
    /\ pc' = IF pc = "recv1" THEN "recv2" ELSE "wait"
    /\ UNCHANGED <<reqVars, now, fs, inventoryPath, args, spinner, console, started,
                   rdClosed, cmdErr, retErr, retResult, childVars, rdr, cur, ended,
                   mu, outputBuffer, errorBuffer, result, currentTask, failed,
                   genVars, cliVars>>

\* cmd.Wait: returns once the subprocess has exited, and closes the parent's
\* ends of both pipes
WaitOutcome == exitCode # 0

\* quiet path: cmd.Wait and e.spinner.Stop
Wait ==
    /\ pc = "wait"
    /\ exited
    /\ cmdErr' = WaitOutcome
    /\ rdClosed' = [s \in Streams |-> TRUE]
    /\ spinner' = [spinner EXCEPT !.active = FALSE]
    /\ pc' = "report"
    /\ UNCHANGED <<reqVars, now, fs, inventoryPath, args, console, started, retErr,
                   retResult, childVars, readerVars, genVars, cliVars>>

\* Success of the PlaybookResult
Success(waitErr, flag, res) == ~waitErr /\ ~flag /\ res.Failed = 0

\* PlaybookResultOf with the sub-results parsed on success only
PlaybookResultOnSuccess(waitErr, flag, res, output) ==
    [nil |-> FALSE,
     Success |-> Success(waitErr, flag, res),
     Output |-> output,
     DNSStatus |-> IF Success(waitErr, flag, res)
                   THEN parseDNSStatus(output) ELSE NoDNSStatus,
     SSLInfo |-> IF Success(waitErr, flag, res)
                 THEN parseSSLInfo(output) ELSE NoSSLInfo]

\* the PlaybookResult of executeWithSpinnerAndResult: the verdict, the
\* captured stdout and the two sub-results parsed from it
PlaybookResultOf(waitErr, flag, res, output) ==
    [nil |-> FALSE,
     Success |-> Success(waitErr, flag, res),
     Output |-> output,
     DNSStatus |-> parseDNSStatus(output),
     SSLInfo |-> parseSSLInfo(output)]

\* Report that starts the call over when the verdict is a failure
ReportRetry ==
    /\ pc = "report"
    /\ mu = "free"
    /\ LET bad == RunFailed(cmdErr, failed, result)
           playbookResult == PlaybookResultOf(cmdErr, failed, result, outputBuffer)
       IN  /\ console' = console \o Summary(bad, currentTask, result,
                                            outputBuffer, errorBuffer)
           /\ retErr' = IF ~bad THEN "nil"
                        ELSE IF cmdErr THEN "ansible-playbook failed"
                        ELSE "playbook completed with failures"
           /\ retResult' = IF api = "ExecutePlaybookWithResult"
                           THEN playbookResult ELSE NilResult
           /\ pc' = IF bad THEN "call" ELSE "done"
    /\ fs' = Deferred(fs)
    /\ UNCHANGED <<reqVars, now, inventoryPath, args, spinner, started, rdClosed,
                   cmdErr, childVars, readerVars, genVars, cliVars>>

\* quiet path: the verdict, the summary and the return
Report ==
    /\ pc = "report"
    /\ mu = "free"
    /\ LET bad == RunFailed(cmdErr, failed, result)
           playbookResult == PlaybookResultOf(cmdErr, failed, result, outputBuffer)
       IN  /\ console' = console \o Summary(bad, currentTask, result,
                                            outputBuffer, errorBuffer)
           /\ retErr' = IF ~bad THEN "nil"
                        ELSE IF cmdErr THEN "ansible-playbook failed"
                        ELSE "playbook completed with failures"
           /\ retResult' = IF api = "ExecutePlaybookWithResult"
                           THEN playbookResult ELSE NilResult
    /\ fs' = Deferred(fs)
    /\ pc' = "done"
    /\ UNCHANGED <<reqVars, now, inventoryPath, args, spinner, started, rdClosed,
                   cmdErr, childVars, readerVars, genVars, cliVars>>

\* verbose branch: <-done on the unbuffered channel, met by the send of the
\* stdout goroutine
RecvDoneVerbose ==
    /\ pc = "vrecv"
    /\ rdr["stdout"] = "send"
    /\ rdr' = [rdr EXCEPT !["stdout"] = "end"]
    /\ pc' = "vwait"
    /\ UNCHANGED <<reqVars, now, fs, inventoryPath, args, spinner, console, started,
                   rdClosed, cmdErr, retErr, retResult, childVars, cur, ended, mu,
                   done, outputBuffer, errorBuffer, result, currentTask, failed,
                   genVars, cliVars>>

\* verbose branch: cmd.Wait and the return
WaitVerbose ==
    /\ pc = "vwait"
    /\ exited
    /\ cmdErr' = WaitOutcome
    /\ rdClosed' = [s \in Streams |-> TRUE]
    /\ retErr' = IF cmdErr' THEN "ansible-playbook failed" ELSE "nil"
    /\ fs' = Deferred(fs)
    /\ pc' = "done"
    /\ UNCHANGED <<reqVars, now, inventoryPath, args, spinner, console, started,
                   retResult, childVars, readerVars, genVars, cliVars>>

Next ==
    \/ GenerateInventory
    \/ CheckPlaybook
    \/ CreatePipes
    \/ StartSpinner
    \/ StartQuiet
    \/ StartVerbose
    \/ \E s \in Streams : ChildWrite(s)
    \/ \E s \in Streams : ChildBlock(s)
    \/ \E s \in Streams : ChildClose(s)
    \/ ChildExit
    \/ \E s \in Streams : Scan(s)
    \/ \E s \in Streams : Lock(s)
    \/ ProcessStdout
    \/ ProcessStderr
    \/ \E s \in Streams : SendDone(s)
    \/ \E s \in Streams : StreamOutput(s)
    \/ RecvDone
    \/ Wait
    \/ Report
    \/ RecvDoneVerbose
    \/ WaitVerbose

Spec == Init /\ [][Next]_vars

TypeOK ==
    /\ pc \in {"call", "stat", "pipes", "spin", "start", "vstart", "recv1", "recv2", "wait",
               "report", "vrecv", "vwait", "done"}
    /\ mu \in {"free"} \cup Streams
    /\ done \in 0..2

(***************************************************************************)
(* The call on a subprocess that may write an over-long line to stdout     *)
(***************************************************************************)
InitLong ==
    /\ api \in Apis
    /\ verbose \in BOOLEAN
    /\ dryRun = FALSE
    /\ server = [Name |-> "web"]
    /\ globalVars = [k \in {"a", "b"} |-> IF k = "a" THEN 1 ELSE 2]
    /\ extraVars = [k \in {"b"} |-> 3]
    /\ fault \in Faults
    /\ playbookExists \in BOOLEAN
    /\ alphabet = [s \in Streams |->
                      IF s = "stdout" THEN {LongLine, TaskLine} ELSE {WarnLine}]
    /\ now = 0
    /\ fs = NoFiles
    /\ Fresh

SpecLong == InitLong /\ [][Next]_vars

(***************************************************************************)
(* The call on a subprocess that may write a task header, a recap line, a  *)
(* DNS_STATUS line or an SSL_ISSUED line to either stream                  *)
(***************************************************************************)
StreamLines == {TaskLine, RecapFailed, DnsLine("true"), SslLine}

InitStreams ==
    /\ api \in Apis
    /\ verbose \in BOOLEAN
    /\ dryRun = FALSE
    /\ server = [Name |-> "web"]
    /\ globalVars = [k \in {"a", "b"} |-> IF k = "a" THEN 1 ELSE 2]
    /\ extraVars = [k \in {"b"} |-> 3]
    /\ fault \in Faults
    /\ playbookExists \in BOOLEAN
    /\ alphabet = [s \in Streams |-> StreamLines]
    /\ now = 0
    /\ fs = NoFiles
    /\ Fresh

SpecStreams == InitStreams /\ [][Next]_vars

(***************************************************************************)
(* The quiet path under fair scheduling: the goroutines of the call (the   *)
(* caller and the two readers) are scheduled fairly, the subprocess is     *)
(* not obliged to do anything                                              *)
(***************************************************************************)
InitQuiet ==
    /\ api \in Apis
    /\ verbose = FALSE
    /\ dryRun = FALSE
    /\ server = [Name |-> "web"]
    /\ globalVars = [k \in {"a", "b"} |-> IF k = "a" THEN 1 ELSE 2]
    /\ extraVars = [k \in {"b"} |-> 3]
    /\ fault = "none"
    /\ playbookExists = TRUE
    /\ alphabet = [s \in Streams |->
                      IF s = "stdout" THEN {LongLine, TaskLine} ELSE {WarnLine}]
    /\ now = 0
    /\ fs = NoFiles
    /\ Fresh

\* the steps of the caller and of the two reader goroutines
Goroutines ==
    \/ GenerateInventory
    \/ CheckPlaybook
    \/ CreatePipes
    \/ StartSpinner
    \/ StartQuiet
    \/ \E s \in Streams : Scan(s)
    \/ \E s \in Streams : Lock(s)
    \/ ProcessStdout
    \/ ProcessStderr
    \/ \E s \in Streams : SendDone(s)
    \/ RecvDone
    \/ Wait
    \/ Report

NextQuiet ==
    \/ GenerateInventory
    \/ CheckPlaybook
    \/ CreatePipes
    \/ StartSpinner
    \/ StartQuiet
    \/ \E s \in Streams : ChildWrite(s)
    \/ \E s \in Streams : ChildBlock(s)
    \/ \E s \in Streams : ChildClose(s)
    \/ ChildExit
    \/ \E s \in Streams : Scan(s)
    \/ \E s \in Streams : Lock(s)
    \/ ProcessStdout
    \/ ProcessStderr
    \/ \E s \in Streams : SendDone(s)
    \/ RecvDone
    \/ Wait
    \/ Report

SpecQuiet == InitQuiet /\ [][NextQuiet]_vars /\ WF_vars(Goroutines)

(***************************************************************************)
(* The argument vector over all payloads: the call stands after Generate,  *)
(* before the check of the playbook                                        *)
(***************************************************************************)
InitArgs ==
    /\ api \in Apis
    /\ verbose \in BOOLEAN
    /\ dryRun \in BOOLEAN
    /\ server = [Name |-> "web"]
    /\ globalVars \in Payloads
    /\ extraVars \in Payloads
    /\ fault = "none"
    /\ playbookExists = TRUE
    /\ alphabet = [s \in Streams |-> IF s = "stdout" THEN OutLines ELSE ErrLines]
    /\ now = 0
    /\ LET g == Generate(server, <<"wordsail ", PlaybookName>>, globalVars, NoFiles,
                         now, "none")
       IN  /\ fs = g.files
           /\ inventoryPath = g.path
    /\ pc = "stat"
    /\ args = <<>>
    /\ spinner = [active |-> FALSE, Suffix |-> <<>>]
    /\ console = <<>>
    /\ started = FALSE
    /\ exitCode = 0
    /\ exited = FALSE
    /\ program = [s \in Streams |-> <<>>]
    /\ wrClosed = [s \in Streams |-> FALSE]
    /\ pipe = [s \in Streams |-> <<>>]
    /\ rdClosed = [s \in Streams |-> FALSE]
    /\ rdr = [s \in Streams |-> "idle"]
    /\ cur = [s \in Streams |-> <<>>]
    /\ ended = [s \in Streams |-> "no"]
    /\ mu = "free"
    /\ done = 0
    /\ outputBuffer = <<>>
    /\ errorBuffer = <<>>
    /\ result = [Ok |-> 0, Changed |-> 0, Failed |-> 0]
    /\ currentTask = <<>>
    /\ failed = FALSE
    /\ cmdErr = FALSE
    /\ retErr = "nil"
    /\ retResult = NilResult
    /\ held = [c \in Callers |-> NoPath]
    /\ lastCleanup = NoCleanup
    /\ blocked = [s \in Streams |-> FALSE]
    /\ config = InitialConfig
    /\ cmd = NoCommand
    /\ exitStatus = 0
    /\ StoreIdle

NextArgs == CheckPlaybook

SpecArgs == InitArgs /\ [][NextArgs]_vars

(***************************************************************************)
(* The sub-results over all captured outputs: the call stands after        *)
(* cmd.Wait of a subprocess that wrote the marker lines to stdout          *)
(***************************************************************************)
\* the recap counters left by a sequence of stdout lines
RECURSIVE RecapAfter(_)
RecapAfter(lines) ==
    IF lines = <<>> THEN [Ok |-> 0, Changed |-> 0, Failed |-> 0]
    ELSE ParseRecap(RecapAfter(SubSeq(lines, 1, Len(lines) - 1)), lines[Len(lines)])

\* currentTask and the suffix of the spinner left by a sequence of stdout
\* lines
RECURSIVE TaskAfter(_)
TaskAfter(lines) ==
    IF lines = <<>> THEN <<>>
    ELSE CurrentTask(TaskAfter(SubSeq(lines, 1, Len(lines) - 1)), lines[Len(lines)])

RECURSIVE SuffixAfter(_)
SuffixAfter(lines) ==
    IF lines = <<>> THEN <<" Starting...">>
    ELSE SpinnerSuffix(SuffixAfter(SubSeq(lines, 1, Len(lines) - 1)), lines[Len(lines)])

\* the failure flag left by the lines of both streams
FlagAfter(lines) == \E k \in 1..Len(lines) : MarkFailed(FALSE, lines[k])

CapturedOutputs == UNION {[1..n -> MarkerLines] : n \in 0..MaxBuf}

InitParse ==
    /\ api \in Apis
    /\ verbose = FALSE
    /\ dryRun = FALSE
    /\ server = [Name |-> "web"]
    /\ globalVars = [k \in {"a"} |-> 1]
    /\ extraVars = [k \in {} |-> 0]
    /\ fault = "none"
    /\ playbookExists = TRUE
    /\ alphabet = [s \in Streams |-> IF s = "stdout" THEN MarkerLines ELSE {}]
    /\ now = 0
    /\ LET g == Generate(server, <<"wordsail ", PlaybookName>>, globalVars, NoFiles,
                         now, "none")
       IN  /\ fs = g.files
           /\ inventoryPath = g.path
    /\ pc = "report"
    /\ args = BuildArgs(PlaybookPath(AnsiblePath, PlaybookName), inventoryPath,
                        verbose, dryRun, globalVars, extraVars)
    /\ outputBuffer \in CapturedOutputs
    /\ errorBuffer = <<>>
    /\ program = [s \in Streams |-> IF s = "stdout" THEN outputBuffer ELSE <<>>]
    /\ spinner = [active |-> FALSE, Suffix |-> SuffixAfter(outputBuffer)]
    /\ console = <<>>
    /\ started = TRUE
    /\ exitCode \in {0, 1}
    /\ exited = TRUE
    /\ wrClosed = [s \in Streams |-> TRUE]
    /\ pipe = [s \in Streams |-> <<>>]
    /\ blocked = [s \in Streams |-> FALSE]
    /\ rdClosed = [s \in Streams |-> TRUE]
    /\ rdr = [s \in Streams |-> "end"]
    /\ cur = [s \in Streams |->
                 IF s = "stdout" /\ outputBuffer # <<>>
                 THEN outputBuffer[Len(outputBuffer)] ELSE <<>>]
    /\ ended = [s \in Streams |-> "eof"]
    /\ mu = "free"
    /\ done = 0
    /\ result = RecapAfter(outputBuffer)
    /\ currentTask = TaskAfter(outputBuffer)
    /\ failed = FlagAfter(outputBuffer)
    /\ cmdErr = WaitOutcome
    /\ retErr = "nil"
    /\ retResult = NilResult
    /\ held = [c \in Callers |-> NoPath]
    /\ lastCleanup = NoCleanup
    /\ config = InitialConfig
    /\ cmd = NoCommand
    /\ exitStatus = 0
    /\ StoreIdle

NextParse == Report

SpecParse == InitParse /\ [][NextParse]_vars

(***************************************************************************)
(* The diagnostic excerpt over long captured outputs: the call stands      *)
(* after cmd.Wait of a subprocess that wrote task headers, fatal lines and *)
(* stretches of plain lines to stdout                                      *)
(***************************************************************************)
\* plain lines between two markers: none, one, as many as the excerpt takes
\* after a marker, and one more
Gaps == {0, 1, maxContextLines, maxContextLines + 1}

Fill(n) == [k \in 1..n |-> OkLine]

ContextMarkers == {TaskLine, TaskLine2, FatalLine}

\* a marker with the plain lines after it, or plain lines alone
Segments ==
    {<<m>> \o Fill(n) : m \in ContextMarkers, n \in Gaps}
    \cup {Fill(n) : n \in Gaps \ {0}}

RECURSIVE Flatten(_)
Flatten(segs) == IF segs = <<>> THEN <<>> ELSE Head(segs) \o Flatten(Tail(segs))

ContextOutputs == UNION {{Flatten(g) : g \in [1..n -> Segments]} : n \in 0..MaxSegs}

InitContext ==
    /\ api \in Apis
    /\ verbose = FALSE
    /\ dryRun = FALSE
    /\ server = [Name |-> "web"]
    /\ globalVars = [k \in {"a"} |-> 1]
    /\ extraVars = [k \in {} |-> 0]
    /\ fault = "none"
    /\ playbookExists = TRUE
    /\ alphabet = [s \in Streams |->
                      IF s = "stdout" THEN ContextMarkers \cup {OkLine} ELSE {WarnLine}]
    /\ now = 0
    /\ LET g == Generate(server, <<"wordsail ", PlaybookName>>, globalVars, NoFiles,
                         now, "none")
       IN  /\ fs = g.files
           /\ inventoryPath = g.path
    /\ pc = "report"
    /\ args = BuildArgs(PlaybookPath(AnsiblePath, PlaybookName), inventoryPath,
                        verbose, dryRun, globalVars, extraVars)
    /\ outputBuffer \in ContextOutputs
    /\ errorBuffer \in {<<>>, <<WarnLine>>}
    /\ program = [s \in Streams |-> IF s = "stdout" THEN outputBuffer ELSE errorBuffer]
    /\ spinner = [active |-> FALSE, Suffix |-> SuffixAfter(outputBuffer)]
    /\ console = <<>>
    /\ started = TRUE
    /\ exitCode \in {0, 1}
    /\ exited = TRUE
    /\ wrClosed = [s \in Streams |-> TRUE]
    /\ pipe = [s \in Streams |-> <<>>]
    /\ blocked = [s \in Streams |-> FALSE]
    /\ rdClosed = [s \in Streams |-> TRUE]
    /\ rdr = [s \in Streams |-> "end"]
    /\ cur = [s \in Streams |->
                 IF program[s] # <<>> THEN program[s][Len(program[s])] ELSE <<>>]
    /\ ended = [s \in Streams |-> "eof"]
    /\ mu = "free"
    /\ done = 0
    /\ result = RecapAfter(outputBuffer)
    /\ currentTask = TaskAfter(outputBuffer)
    /\ failed = FlagAfter(outputBuffer \o errorBuffer)
    /\ cmdErr = WaitOutcome
    /\ retErr = "nil"
    /\ retResult = NilResult
    /\ held = [c \in Callers |-> NoPath]
    /\ lastCleanup = NoCleanup
    /\ config = InitialConfig
    /\ cmd = NoCommand
    /\ exitStatus = 0
    /\ StoreIdle

NextContext == Report

SpecContext == InitContext /\ [][NextContext]_vars

(***************************************************************************)
(* The two entry points on the same subprocess: one call stands after the  *)
(* subprocess has exited and both readers have ended, and once it has      *)
(* returned the other entry point is called with the same flags and        *)
(* request and the subprocess behaves as it did                            *)
(***************************************************************************)
AgreeOutputs == UNION {[1..n -> OutLines] : n \in 0..MaxOut}

AgreeErrors == UNION {[1..n -> ErrLines] : n \in 0..MaxErr}

OtherApi(a) == IF a = "ExecutePlaybook" THEN "ExecutePlaybookWithResult"
               ELSE "ExecutePlaybook"

\* what streamOutput printed of a stream
Streamed(lines, isError) ==
    [i \in 1..Len(lines) |-> [color |-> StreamColor(lines[i], isError),
                              text |-> lines[i]]]

\* the call where its readers have ended: before the verdict on the quiet
\* path, before cmd.Wait in the verbose branch, which keeps no buffers
Drained(quiet, out, err) ==
    [pc |-> IF quiet THEN "report" ELSE "vwait",
     outputBuffer |-> IF quiet THEN out ELSE <<>>,
     errorBuffer |-> IF quiet THEN err ELSE <<>>,
     spinner |-> [active |-> FALSE,
                  Suffix |-> IF quiet THEN SuffixAfter(out) ELSE <<>>],
     cur |-> [s \in Streams |->
                 IF quiet /\ s = "stdout" /\ out # <<>> THEN out[Len(out)]
                 ELSE IF quiet /\ s = "stderr" /\ err # <<>> THEN err[Len(err)]
                 ELSE <<>>],
     result |-> IF quiet THEN RecapAfter(out)
                ELSE [Ok |-> 0, Changed |-> 0, Failed |-> 0],
     currentTask |-> IF quiet THEN TaskAfter(out) ELSE <<>>,
     failed |-> (quiet /\ FlagAfter(out \o err)),
     cmdErr |-> (quiet /\ WaitOutcome),
     rdClosed |-> [s \in Streams |-> quiet]]

InitAgree ==
    /\ api \in Apis
    /\ verbose \in BOOLEAN
    /\ dryRun \in BOOLEAN
    /\ server = [Name |-> "web"]
    /\ globalVars = [k \in {"a"} |-> 1]
    /\ extraVars = [k \in {} |-> 0]
    /\ fault = "none"
    /\ playbookExists = TRUE
    /\ alphabet = [s \in Streams |-> IF s = "stdout" THEN OutLines ELSE ErrLines]
    /\ now = 0
    /\ LET g == Generate(server, <<"wordsail ", PlaybookName>>, globalVars, NoFiles,
                         now, "none")
       IN  /\ fs = g.files
           /\ inventoryPath = g.path
    /\ args = BuildArgs(PlaybookPath(AnsiblePath, PlaybookName), inventoryPath,
                        verbose, dryRun, globalVars, extraVars)
    /\ program \in [Streams -> AgreeOutputs \cup AgreeErrors]
    /\ program["stdout"] \in AgreeOutputs
    /\ program["stderr"] \in AgreeErrors
    /\ exitCode \in {0, 1}
    /\ \E d \in {Drained(Quiet, program["stdout"], program["stderr"])} :
          /\ pc = d.pc
          /\ outputBuffer = d.outputBuffer
          /\ errorBuffer = d.errorBuffer
          /\ spinner = d.spinner
          /\ cur = d.cur
          /\ result = d.result
          /\ currentTask = d.currentTask
          /\ failed = d.failed
          /\ cmdErr = d.cmdErr
          /\ rdClosed = d.rdClosed
    /\ console = IF Quiet THEN <<>>
                 ELSE <<[color |-> "cyan", text |-> <<"Running: ansible-playbook">>]>>
                      \o Streamed(program["stdout"], FALSE)
                      \o Streamed(program["stderr"], TRUE)
    /\ started = TRUE
    /\ exited = TRUE
    /\ wrClosed = [s \in Streams |-> TRUE]
    /\ pipe = [s \in Streams |-> <<>>]
    /\ blocked = [s \in Streams |-> FALSE]
    /\ rdr = [s \in Streams |-> "end"]
    /\ ended = [s \in Streams |-> "eof"]
    /\ mu = "free"
    /\ done = 0
    /\ retErr = "nil"
    /\ retResult = NilResult
    /\ held = [c \in Callers |-> NoPath]
    /\ lastCleanup = NoCleanup
    /\ config = InitialConfig
    /\ cmd = NoCommand
    /\ exitStatus = 0
    /\ StoreIdle

\* the first call has returned: the other entry point is called on the same
\* executor with the same request, and the subprocess writes the same lines
\* and exits with the same code
CallAgain ==
    /\ pc = "done"
    /\ ~prev.called
    /\ prev' = [called |-> TRUE, api |-> api, err |-> retErr, args |-> args]
    /\ api' = OtherApi(api)
    /\ \E g \in {Generate(server, <<"wordsail ", PlaybookName>>, globalVars, fs,
                          now, "none")} :
          /\ fs' = g.files
          /\ inventoryPath' = g.path
          /\ args' = BuildArgs(PlaybookPath(AnsiblePath, PlaybookName), g.path,
                               verbose, dryRun, globalVars, extraVars)
    /\ \E d \in {Drained(api' = "ExecutePlaybookWithResult" \/ ~verbose,
                           program["stdout"], program["stderr"])} :
          /\ pc' = d.pc
          /\ outputBuffer' = d.outputBuffer
          /\ errorBuffer' = d.errorBuffer
          /\ spinner' = d.spinner
          /\ cur' = d.cur
          /\ result' = d.result
          /\ currentTask' = d.currentTask
          /\ failed' = d.failed
          /\ cmdErr' = d.cmdErr
          /\ rdClosed' = d.rdClosed
    /\ console' = IF api' = "ExecutePlaybookWithResult" \/ ~verbose THEN console
                  ELSE console
                       \o <<[color |-> "cyan", text |-> <<"Running: ansible-playbook">>]>>
                       \o Streamed(program["stdout"], FALSE)
                       \o Streamed(program["stderr"], TRUE)
    /\ retErr' = "nil"
    /\ retResult' = NilResult
    /\ UNCHANGED <<verbose, dryRun, server, globalVars, extraVars, fault,
                   playbookExists, alphabet, now, started, childVars, rdr, ended,
                   mu, done, genVars, config, cmd, exitStatus, disk, saver, loaded,
                   lastOp>>

NextAgree ==
    \/ Report
    \/ WaitVerbose
    \/ CallAgain

SpecAgree == InitAgree /\ [][NextAgree]_vars

(***************************************************************************)
(* The configuration file under concurrent CLI invocations (package        *)
(* config): Save writes the temporary file and renames it, Load reads the  *)
(* configuration file                                                      *)
(***************************************************************************)
\* yaml.Marshal of the configuration a caller saves: callers save different
\* configurations, of different lengths
yamlMarshal(c) == Content(c, c)

\* f.Write at offset 0 of a file opened without O_APPEND: the data replace
\* the first bytes of the file and what lies behind them stays
WriteAt(file, data) == data \o SubSeq(file, Len(data) + 1, Len(file))

\* Save up to the open of os.WriteFile(tmpPath, ...) with
\* O_WRONLY|O_CREATE|O_TRUNC: the path is the same for every caller, so the
\* open creates the temporary file or empties the one that is there
SaveOpen(c) ==
    /\ saver[c].pc = "idle"
    /\ saver[c].saves < MaxSaves
    /\ IF disk.names["tmp"] = 0
       THEN /\ disk' = [names |-> [disk.names EXCEPT !["tmp"] = Len(disk.data) + 1],
                        data |-> Append(disk.data, <<>>)]
            /\ saver' = [saver EXCEPT ![c] = [pc |-> "write", ino |-> Len(disk.data) + 1,
                                              saves |-> @.saves + 1, err |-> "nil"]]
       ELSE /\ disk' = [disk EXCEPT !.data[disk.names["tmp"]] = <<>>]
            /\ saver' = [saver EXCEPT ![c] = [pc |-> "write", ino |-> disk.names["tmp"],
                                              saves |-> @.saves + 1, err |-> "nil"]]
    /\ UNCHANGED <<reqVars, now, fs, callVars, childVars, readerVars, genVars,
                   config, cmd, exitStatus, prev, loaded, lastOp>>

\* the write and the close of os.WriteFile, on the file the caller opened
SaveWrite(c) ==
    /\ saver[c].pc = "write"
    /\ disk' = [disk EXCEPT !.data[saver[c].ino] = WriteAt(@, yamlMarshal(c))]
    /\ saver' = [saver EXCEPT ![c].pc = "rename"]
    /\ UNCHANGED <<reqVars, now, fs, callVars, childVars, readerVars, genVars,
                   config, cmd, exitStatus, prev, loaded, lastOp>>

\* os.Rename(tmpPath, m.configPath) and the return: the name of the
\* configuration file is moved to whatever file the temporary name refers
\* to; with no temporary file the rename fails, os.Remove finds nothing and
\* Save returns the error
SaveRename(c) ==
    /\ saver[c].pc = "rename"
    /\ IF disk.names["tmp"] = 0
       THEN /\ saver' = [saver EXCEPT ![c].pc = "idle", ![c].ino = 0,
                                      ![c].err = "failed to save config file"]
            /\ UNCHANGED disk
       ELSE /\ disk' = [disk EXCEPT !.names = [n \in {"config", "tmp"} |->
                                        IF n = "config" THEN disk.names["tmp"] ELSE 0]]
            /\ saver' = [saver EXCEPT ![c].pc = "idle", ![c].ino = 0]
    /\ UNCHANGED <<reqVars, now, fs, callVars, childVars, readerVars, genVars,
                   config, cmd, exitStatus, prev, loaded, lastOp>>

\* Load: os.ReadFile(m.configPath)
Load ==
    /\ loaded' = [read |-> TRUE, data |-> disk.data[disk.names["config"]]]
    /\ UNCHANGED <<reqVars, now, fs, callVars, childVars, readerVars, genVars,
                   config, cmd, exitStatus, prev, disk, saver, lastOp>>

NextSave ==
    \/ \E c \in Callers : SaveOpen(c)
    \/ \E c \in Callers : SaveWrite(c)
    \/ \E c \in Callers : SaveRename(c)
    \/ Load

\* no call of the executor is under way
InitSave ==
    /\ Init
    /\ api = "ExecutePlaybook"
    /\ ~verbose
    /\ fault = "none"
    /\ playbookExists

SpecSave == InitSave /\ [][NextSave]_vars

(***************************************************************************)
(* The state manager on configurations of several servers, sites and       *)
(* domains: one operation is applied to a configuration, with a target     *)
(* that is there or not                                                    *)
(***************************************************************************)
StateSiteIDs == {"blog", "shop", "wiki"}

StateDomainNames == {"example.com", "www.example.com", "shop.example.com"}

Dom(name) == [Domain |-> name, SSLEnabled |-> FALSE]

St(siteID, domains) == [SiteID |-> siteID, Domains |-> domains]

Srv(name, status, sites) ==
    [Name |-> name, Status |-> status, HasPassword |-> FALSE, Sites |-> sites]

\* the domains of a site: none, one, several, and one name twice
\* (AddDomainToSite appends without a look at the names that are there)
StateDomainLists ==
    {<<>>,
     <<Dom("example.com")>>,
     <<Dom("example.com"), Dom("www.example.com")>>,
     <<Dom("www.example.com"), Dom("example.com"), Dom("shop.example.com")>>,
     <<Dom("example.com"), Dom("www.example.com"), Dom("example.com")>>}

\* the sites of a server: none, one, several, and one identifier twice
\* (AddSiteToServer appends without a look at the identifiers that are there)
StateSiteLists ==
    {<<>>}
    \cup {<<St("blog", dl)>> : dl \in StateDomainLists}
    \cup {<<St("shop", <<Dom("example.com")>>), St("blog", dl), St("wiki", <<>>)>> :
             dl \in StateDomainLists}
    \cup {<<St("blog", dl), St("blog", <<Dom("shop.example.com")>>)>> :
             dl \in StateDomainLists}

StateConfigs ==
    {[Servers |-> <<>>]}
    \cup {[Servers |-> <<Srv("web", st, sl)>>] :
             st \in {"unprovisioned", "provisioned"}, sl \in StateSiteLists}
    \cup {[Servers |-> <<Srv("db", "provisioned", <<St("blog", <<Dom("example.com")>>)>>),
                         Srv("web", "unprovisioned", sl),
                         Srv("cache", "error", <<>>)>>] : sl \in StateSiteLists}

InitState ==
    /\ api = "ExecutePlaybook"
    /\ verbose = FALSE
    /\ dryRun = FALSE
    /\ server = [Name |-> "web"]
    /\ globalVars = [k \in {"a"} |-> 1]
    /\ extraVars = [k \in {} |-> 0]
    /\ fault = "none"
    /\ playbookExists = TRUE
    /\ alphabet = [s \in Streams |-> {}]
    /\ now = 0
    /\ fs = NoFiles
    /\ FreshCall
    /\ config \in StateConfigs
    /\ cmd = NoCommand
    /\ exitStatus = 0
    /\ StoreIdle

\* one call of a state-manager operation: Load, the operation, and Save
\* when it found its target; the call and its outcome are noted
Apply(op, serverName, siteID, domainName, r) ==
    /\ lastOp.op = "none"
    /\ config' = r.cfg
    /\ lastOp' = [op |-> op, serverName |-> serverName, siteID |-> siteID,
                  domainName |-> domainName, err |-> r.err,
                  saved |-> (r.err = "nil"), before |-> config]
    /\ UNCHANGED <<reqVars, now, fs, callVars, childVars, readerVars, genVars,
                   cmd, exitStatus, prev, disk, saver, loaded>>

StateMarkProvisioned ==
    \E serverName \in Servers :
        \E r \in {MarkServerProvisioned(config, serverName)} :
            Apply("MarkServerProvisioned", serverName, "", "", r)

StateMarkError ==
    \E serverName \in Servers :
        \E r \in {MarkServerError(config, serverName)} :
            Apply("MarkServerError", serverName, "", "", r)

StateAddSite ==
    \E serverName \in Servers, siteID \in StateSiteIDs :
        \E r \in {AddSiteToServer(config, serverName, St(siteID, <<>>))} :
            Apply("AddSiteToServer", serverName, siteID, "", r)

StateRemoveSite ==
    \E serverName \in Servers, siteID \in StateSiteIDs :
        \E r \in {RemoveSiteFromServer(config, serverName, siteID)} :
            Apply("RemoveSiteFromServer", serverName, siteID, "", r)

StateAddDomain ==
    \E serverName \in Servers, siteID \in StateSiteIDs, name \in StateDomainNames :
        \E r \in {AddDomainToSite(config, serverName, siteID, Dom(name))} :
            Apply("AddDomainToSite", serverName, siteID, name, r)

StateRemoveDomain ==
    \E serverName \in Servers, siteID \in StateSiteIDs, name \in StateDomainNames :
        \E r \in {RemoveDomainFromSite(config, serverName, siteID, name)} :
            Apply("RemoveDomainFromSite", serverName, siteID, name, r)

StateUpdateSSL ==
    \E serverName \in Servers, siteID \in StateSiteIDs, name \in StateDomainNames :
        \E r \in {UpdateDomainSSL(config, serverName, siteID, name,
                                  [Domain |-> name, SSLEnabled |-> TRUE])} :
            Apply("UpdateDomainSSL", serverName, siteID, name, r)

NextState ==
    \/ StateMarkProvisioned
    \/ StateMarkError
    \/ StateAddSite
    \/ StateRemoveSite
    \/ StateAddDomain
    \/ StateRemoveDomain
    \/ StateUpdateSSL

SpecState == InitState /\ [][NextState]_vars

(***************************************************************************)
(* The inventory generator under several users                             *)
(***************************************************************************)
\* the wall clock advances
Tick ==
    /\ now < MaxClock
    /\ now' = now + 1
    /\ UNCHANGED <<reqVars, fs, callVars, childVars, readerVars, genVars, cliVars>>

\* a user without an inventory calls Generate for some target
CallGenerate(c) ==
    /\ held[c] = NoPath
    /\ \E name \in Servers, flt \in GenFaults :
          LET g == Generate([Name |-> name], <<"wordsail ", PlaybookName>>,
                            globalVars, fs, now, flt)
          IN  /\ fs' = g.files
              /\ held' = [held EXCEPT ![c] = g.path]
    /\ UNCHANGED <<reqVars, now, callVars, childVars, readerVars, lastCleanup, cliVars>>

\* the paths Generate can have made up to now
KnownPaths == {OutputPath(name, t) : name \in Servers, t \in 0..now}

\* a user calls Cleanup: on the path it holds, on another path, or on ""
CallCleanup(c) ==
    /\ \E path \in KnownPaths \cup {NoPath} :
          LET r == Cleanup(path, fs)
          IN  /\ fs' = r.files
              /\ lastCleanup' = [path |-> path, existed |-> path \in DOMAIN fs,
                                 err |-> r.err]
              /\ held' = [held EXCEPT ![c] = IF @ = path THEN NoPath ELSE @]
    /\ UNCHANGED <<reqVars, now, callVars, childVars, readerVars, cliVars>>

InitGen ==
    /\ api = "ExecutePlaybook"
    /\ verbose = FALSE
    /\ dryRun = FALSE
    /\ server = [Name |-> "web"]
    /\ globalVars = [k \in {"a"} |-> 1]
    /\ extraVars = [k \in {} |-> 0]
    /\ fault = "none"
    /\ playbookExists = TRUE
    /\ alphabet = [s \in Streams |-> IF s = "stdout" THEN OutLines ELSE ErrLines]
    /\ now = 0
    /\ fs = NoFiles
    /\ Fresh

NextGen ==
    \/ Tick
    \/ \E c \in Callers : CallGenerate(c)
    \/ \E c \in Callers : CallCleanup(c)

SpecGen == InitGen /\ [][NextGen]_vars

(***************************************************************************)
(* The CLI commands that run a playbook and then update the configuration  *)
(* (package cmd).  ExecutePlaybook and ExecutePlaybookWithResult are taken  *)
(* by what they return; of a server, a site and a domain the fields the    *)
(* commands write are kept.  The prompts are answered so that the command  *)
(* goes on.                                                                *)
(***************************************************************************)
\* what a call of the executor returns for a subprocess with the given exit
\* and stdout
\* the error and the result returned for a verdict and a captured stdout
RunOutcomeOf(waitErr, flag, res, output) ==
    [err |-> IF ~RunFailed(waitErr, flag, res) THEN "nil"
             ELSE IF waitErr THEN "ansible-playbook failed"
             ELSE "playbook completed with failures",
     result |-> PlaybookResultOf(waitErr, flag, res, output)]

RunOutcome(waitErr, output) ==
    RunOutcomeOf(waitErr, FlagAfter(output), RecapAfter(output), output)

RunOutputs == {<<>>, <<SslLine>>}

\* the argument vector of the call a command makes
CommandArgs(playbookName, serverName) ==
    BuildArgs(PlaybookPath(AnsiblePath, playbookName), OutputPath(serverName, now),
              verbose, dryRun, globalVars, extraVars)

\* the state of the executor, which the commands reach through its two
\* entry points only, but for the terminal
CommandFrame ==
    UNCHANGED <<api, verbose, server, globalVars, extraVars, fault, playbookExists,
                alphabet, now, fs, pc, inventoryPath, spinner, started,
                rdClosed, cmdErr, childVars, readerVars, genVars,
                prev, disk, saver, loaded, lastOp>>

ExecutorFrame ==
    /\ UNCHANGED console
    /\ CommandFrame

\* a command begins in a process of its own: the --dry-run flag is read, no
\* call has returned, and the terminal shows what the command prints before
\* it calls the executor or exits
BeginPrinting(dry, printed) ==
    /\ cmd.pc = "idle"
    /\ dryRun' = dry
    /\ retErr' = "nil"
    /\ retResult' = NilResult
    /\ args' = <<>>
    /\ console' = printed
    /\ CommandFrame

Begin(dry) == BeginPrinting(dry, <<>>)

\* color.Red("Error: Server '%s' not found", ...) and
\* color.Red("Error: Server '%s' is not provisioned", ...)
ServerNotFound(serverName) ==
    [color |-> "red", text |-> <<"Error: Server '", serverName, "' not found">>]

ServerNotProvisioned(serverName) ==
    [color |-> "red", text |-> <<"Error: Server '", serverName, "' is not provisioned">>]

Running(name, serverName, siteID, domain, issueSSL) ==
    [name |-> name, pc |-> "run", ServerName |-> serverName, SiteID |-> siteID,
     Domain |-> domain, IssueSSL |-> issueSSL]

\* `server provision <name>` up to the call of ExecutePlaybook: the server
\* is looked up and the MySQL password is generated and saved
ServerProvisionStart ==
    \E serverName \in Servers, dry \in BOOLEAN :
        LET i == ServerIndex(config, serverName)
        IN  /\ Begin(dry)
            /\ IF i = 0
               THEN /\ exitStatus' = 1
                    /\ UNCHANGED <<config, cmd>>
               ELSE /\ config' = [config EXCEPT !.Servers[i].HasPassword = TRUE]
                    /\ cmd' = Running("server provision", serverName, "", "", FALSE)
                    /\ UNCHANGED exitStatus

\* ServerProvisionDone with the server marked provisioned whatever the call
\* returned
ServerProvisionDoneIgnoreError ==
    /\ cmd.name = "server provision" /\ cmd.pc = "run"
    /\ \E waitErr \in BOOLEAN :
          \E r \in {RunOutcome(waitErr, <<>>)} :
              /\ retErr' = r.err
              /\ retResult' = NilResult
              /\ config' = MarkServerProvisioned(config, cmd.ServerName).cfg
              /\ exitStatus' = 0
    /\ args' = CommandArgs("provision.yml", cmd.ServerName)
    /\ cmd' = NoCommand
    /\ UNCHANGED dryRun
    /\ ExecutorFrame

\* `server provision` from the return of ExecutePlaybook on
ServerProvisionDone ==
    /\ cmd.name = "server provision" /\ cmd.pc = "run"
    /\ \E waitErr \in BOOLEAN :
          \E r \in {RunOutcome(waitErr, <<>>)} :
              /\ retErr' = r.err
              /\ retResult' = NilResult
              /\ IF r.err # "nil"
                 THEN /\ config' = MarkServerError(config, cmd.ServerName).cfg
                      /\ exitStatus' = 1
                 ELSE /\ config' = MarkServerProvisioned(config, cmd.ServerName).cfg
                      /\ exitStatus' = 0
    /\ args' = CommandArgs("provision.yml", cmd.ServerName)
    /\ cmd' = NoCommand
    /\ UNCHANGED dryRun
    /\ ExecutorFrame

\* SiteCreateStart without the check of the server's status
SiteCreateStartAnyStatus ==
    \E serverName \in Servers, siteID \in SiteIDs, domain \in DomainNames,
       dry \in BOOLEAN :
        LET i == ServerIndex(config, serverName)
        IN  /\ i # 0 => Len(config.Servers[i].Sites) < MaxSites
            /\ UNCHANGED config
            /\ IF i = 0
               THEN /\ BeginPrinting(dry, <<ServerNotFound(serverName)>>)
                    /\ exitStatus' = 1
                    /\ UNCHANGED cmd
               ELSE /\ Begin(dry)
                    /\ cmd' = Running("site create", serverName, siteID, domain, FALSE)
                    /\ UNCHANGED exitStatus

\* `site create` up to the call of ExecutePlaybookWithResult: the command
\* exits with an error message unless the server exists and is provisioned
SiteCreateStart ==
    \E serverName \in Servers, siteID \in SiteIDs, domain \in DomainNames,
       dry \in BOOLEAN :
        LET i == ServerIndex(config, serverName)
        IN  /\ i # 0 => Len(config.Servers[i].Sites) < MaxSites
            /\ UNCHANGED config
            /\ IF i = 0
               THEN /\ BeginPrinting(dry, <<ServerNotFound(serverName)>>)
                    /\ exitStatus' = 1
                    /\ UNCHANGED cmd
               ELSE IF config.Servers[i].Status # "provisioned"
               THEN /\ BeginPrinting(dry, <<ServerNotProvisioned(serverName)>>)
                    /\ exitStatus' = 1
                    /\ UNCHANGED cmd
               ELSE /\ Begin(dry)
                    /\ cmd' = Running("site create", serverName, siteID, domain, FALSE)
                    /\ UNCHANGED exitStatus

\* `site create` from the return of ExecutePlaybookWithResult on
SiteCreateDone ==
    /\ cmd.name = "site create" /\ cmd.pc = "run"
    /\ \E waitErr \in BOOLEAN, output \in RunOutputs :
          \E r \in {RunOutcome(waitErr, output)} :
          LET newSite == [SiteID |-> cmd.SiteID,
                          Domains |-> <<[Domain |-> cmd.Domain,
                                         SSLEnabled |-> ~r.result.SSLInfo.nil]>>]
          IN  /\ retErr' = r.err
              /\ retResult' = r.result
              /\ IF r.err # "nil"
                 THEN /\ exitStatus' = 1
                      /\ UNCHANGED config
                 ELSE /\ config' = AddSiteToServer(config, cmd.ServerName, newSite).cfg
                      /\ exitStatus' = 0
    /\ args' = CommandArgs("website.yml", cmd.ServerName)
    /\ cmd' = NoCommand
    /\ UNCHANGED dryRun
    /\ ExecutorFrame

\* `site delete` up to the call of ExecutePlaybook
SiteDeleteStart ==
    \E serverName \in Servers, siteID \in SiteIDs, dry \in BOOLEAN :
        LET i == ServerIndex(config, serverName)
        IN  /\ Begin(dry)
            /\ UNCHANGED config
            /\ IF i = 0 \/ SiteIndex(config.Servers[i], siteID) = 0
               THEN /\ exitStatus' = 1
                    /\ UNCHANGED cmd
               ELSE /\ cmd' = Running("site delete", serverName, siteID, "", FALSE)
                    /\ UNCHANGED exitStatus

\* `site delete` from the return of ExecutePlaybook on
SiteDeleteDone ==
    /\ cmd.name = "site delete" /\ cmd.pc = "run"
    /\ \E waitErr \in BOOLEAN :
          \E r \in {RunOutcome(waitErr, <<>>)} :
              /\ retErr' = r.err
              /\ retResult' = NilResult
              /\ IF r.err # "nil"
                 THEN /\ exitStatus' = 1
                      /\ UNCHANGED config
                 ELSE /\ config' = RemoveSiteFromServer(config, cmd.ServerName,
                                                        cmd.SiteID).cfg
                      /\ exitStatus' = 0
    /\ args' = CommandArgs("playbooks/delete_site.yml", cmd.ServerName)
    /\ cmd' = NoCommand
    /\ UNCHANGED dryRun
    /\ ExecutorFrame

\* `domain add` up to the call of ExecutePlaybook
DomainAddStart ==
    \E serverName \in Servers, siteID \in SiteIDs, domain \in DomainNames,
       issueSSL \in BOOLEAN, dry \in BOOLEAN :
        LET i == ServerIndex(config, serverName)
            j == IF i = 0 THEN 0 ELSE SiteIndex(config.Servers[i], siteID)
        IN  /\ j # 0 => Len(config.Servers[i].Sites[j].Domains) < MaxDomains
            /\ Begin(dry)
            /\ UNCHANGED config
            /\ IF i = 0
               THEN /\ exitStatus' = 1
                    /\ UNCHANGED cmd
               ELSE /\ cmd' = Running("domain add", serverName, siteID, domain, issueSSL)
                    /\ UNCHANGED exitStatus

\* `domain add` from the return of ExecutePlaybook up to its end or, with
\* --ssl, to the call of ExecutePlaybookWithResult
DomainAddDone ==
    /\ cmd.name = "domain add" /\ cmd.pc = "run"
    /\ \E waitErr \in BOOLEAN :
          \E r \in {RunOutcome(waitErr, <<>>)} :
          LET newDomain == [Domain |-> cmd.Domain, SSLEnabled |-> FALSE]
          IN  /\ retErr' = r.err
              /\ retResult' = NilResult
              /\ IF r.err # "nil"
                 THEN /\ exitStatus' = 1
                      /\ cmd' = NoCommand
                      /\ UNCHANGED config
                 ELSE /\ config' = AddDomainToSite(config, cmd.ServerName, cmd.SiteID,
                                                   newDomain).cfg
                      /\ IF cmd.IssueSSL
                         THEN /\ cmd' = [cmd EXCEPT !.pc = "run2"]
                              /\ UNCHANGED exitStatus
                         ELSE /\ cmd' = NoCommand
                              /\ exitStatus' = 0
    /\ args' = CommandArgs("playbooks/domain_management.yml", cmd.ServerName)
    /\ UNCHANGED dryRun
    /\ ExecutorFrame

\* `domain add --ssl` from the return of ExecutePlaybookWithResult on
DomainAddSSLDone ==
    /\ cmd.name = "domain add" /\ cmd.pc = "run2"
    /\ \E waitErr \in BOOLEAN, output \in RunOutputs :
          \E r \in {RunOutcome(waitErr, output)} :
          LET sslDomain == [Domain |-> cmd.Domain, SSLEnabled |-> TRUE]
          IN  /\ retErr' = r.err
              /\ retResult' = r.result
              /\ IF r.err # "nil"
                 THEN /\ exitStatus' = 1
                      /\ UNCHANGED config
                 ELSE /\ config' = UpdateDomainSSL(config, cmd.ServerName, cmd.SiteID,
                                                   cmd.Domain, sslDomain).cfg
                      /\ exitStatus' = 0
    /\ args' = CommandArgs("playbooks/domain_management.yml", cmd.ServerName)
    /\ cmd' = NoCommand
    /\ UNCHANGED dryRun
    /\ ExecutorFrame

\* `domain remove` up to the call of ExecutePlaybook
DomainRemoveStart ==
    \E serverName \in Servers, siteID \in SiteIDs, domain \in DomainNames,
       dry \in BOOLEAN :
        /\ Begin(dry)
        /\ UNCHANGED config
        /\ IF ServerIndex(config, serverName) = 0
           THEN /\ exitStatus' = 1
                /\ UNCHANGED cmd
           ELSE /\ cmd' = Running("domain remove", serverName, siteID, domain, FALSE)
                /\ UNCHANGED exitStatus

\* `domain remove` from the return of ExecutePlaybook on
DomainRemoveDone ==
    /\ cmd.name = "domain remove" /\ cmd.pc = "run"
    /\ \E waitErr \in BOOLEAN :
          \E r \in {RunOutcome(waitErr, <<>>)} :
              /\ retErr' = r.err
              /\ retResult' = NilResult
              /\ IF r.err # "nil"
                 THEN /\ exitStatus' = 1
                      /\ UNCHANGED config
                 ELSE /\ config' = RemoveDomainFromSite(config, cmd.ServerName,
                                                        cmd.SiteID, cmd.Domain).cfg
                      /\ exitStatus' = 0
    /\ args' = CommandArgs("playbooks/domain_management.yml", cmd.ServerName)
    /\ cmd' = NoCommand
    /\ UNCHANGED dryRun
    /\ ExecutorFrame

\* `domain ssl` up to the call of ExecutePlaybookWithResult
DomainSSLStart ==
    \E serverName \in Servers, siteID \in SiteIDs, domain \in DomainNames,
       dry \in BOOLEAN :
        /\ Begin(dry)
        /\ UNCHANGED config
        /\ IF ServerIndex(config, serverName) = 0
           THEN /\ exitStatus' = 1
                /\ UNCHANGED cmd
           ELSE /\ cmd' = Running("domain ssl", serverName, siteID, domain, FALSE)
                /\ UNCHANGED exitStatus

\* `domain ssl` from the return of ExecutePlaybookWithResult on
DomainSSLDone ==
    /\ cmd.name = "domain ssl" /\ cmd.pc = "run"
    /\ \E waitErr \in BOOLEAN, output \in RunOutputs :
          \E r \in {RunOutcome(waitErr, output)} :
          LET sslDomain == [Domain |-> cmd.Domain, SSLEnabled |-> TRUE]
          IN  /\ retErr' = r.err
              /\ retResult' = r.result
              /\ IF r.err # "nil"
                 THEN /\ exitStatus' = 1
                      /\ UNCHANGED config
                 ELSE /\ config' = UpdateDomainSSL(config, cmd.ServerName, cmd.SiteID,
                                                   cmd.Domain, sslDomain).cfg
                      /\ exitStatus' = 0
    /\ args' = CommandArgs("playbooks/domain_management.yml", cmd.ServerName)
    /\ cmd' = NoCommand
    /\ UNCHANGED dryRun
    /\ ExecutorFrame

InitCli ==
    /\ api = "ExecutePlaybook"
    /\ verbose = FALSE
    /\ dryRun = FALSE
    /\ server = [Name |-> "web"]
    /\ globalVars = [k \in {"a"} |-> 1]
    /\ extraVars = [k \in {"b"} |-> 2]
    /\ fault = "none"
    /\ playbookExists = TRUE
    /\ alphabet = [s \in Streams |-> IF s = "stdout" THEN OutLines ELSE ErrLines]
    /\ now = 0
    /\ fs = NoFiles
    /\ Fresh

NextCli ==
    \/ ServerProvisionStart
    \/ ServerProvisionDone
    \/ SiteCreateStart
    \/ SiteCreateDone
    \/ SiteDeleteStart
    \/ SiteDeleteDone
    \/ DomainAddStart
    \/ DomainAddDone
    \/ DomainAddSSLDone
    \/ DomainRemoveStart
    \/ DomainRemoveDone
    \/ DomainSSLStart
    \/ DomainSSLDone

SpecCli == InitCli /\ [][NextCli]_vars

(***************************************************************************)
(* Properties                                                              *)
(***************************************************************************)
Returned == pc = "done"

\* the call went through executeWithSpinner or executeWithSpinnerAndResult
\* and the subprocess ran
QuietRun == Returned /\ started /\ Quiet

WithResult == api = "ExecutePlaybookWithResult"

MarkerIn(buf) == \E k \in 1..Len(buf) : failedPattern(buf[k])

RecapIn(buf) == \E k \in 1..Len(buf) : recapPattern(buf[k]) # NoMatch

\* C1: in the quiet paths the call is reported successful (nil error, and
\* Success where a result is returned) exactly when the exit code is 0, the
\* failure flag is unset and the recap counter of failures is 0 or no recap
\* was seen; in every other combination an error is returned and Success is
\* false.
C1_QuietVerdict ==
    QuietRun =>
        LET good == /\ exitCode = 0
                    /\ ~failed
                    /\ (result.Failed = 0 \/ ~RecapIn(outputBuffer))
        IN  /\ (retErr = "nil") <=> good
            /\ WithResult => (~retResult.nil /\ (retResult.Success <=> good))

C1_Witness ==
    /\ QuietRun
    /\ exitCode = 0 /\ ~failed /\ result.Failed > 0
    /\ retErr = "playbook completed with failures"

\* C2: the failure flag is sticky: once a line matching the failure marker
\* has been read from either stream the flag is set whatever lines follow,
\* and the verdict is failure even when a recap with failed=0 came later and
\* the subprocess exited 0.
C2_StickyFailure ==
    (MarkerIn(outputBuffer) \/ MarkerIn(errorBuffer)) =>
        /\ failed
        /\ QuietRun => /\ retErr # "nil"
                       /\ WithResult => ~retResult.Success

C2_Witness ==
    /\ QuietRun
    /\ outputBuffer = <<FatalLine, RecapOk>>
    /\ exitCode = 0
    /\ result.Failed = 0
    /\ retErr = "playbook completed with failures"

\* C3: the captured output carried by the result of ExecutePlaybookWithResult
\* has exactly N + M lines for a subprocess that wrote N lines to stdout and
\* M lines to stderr.
C3_OutputComplete ==
    (QuietRun /\ WithResult) =>
        Len(retResult.Output) = Len(program["stdout"]) + Len(program["stderr"])

\* C4: in every path the call does not go on to wait for the exit of the
\* subprocess, to the verdict or to its return before both readers have
\* reached the end of their stream.
C4_BothStreamsDrained ==
    (started /\ pc \in {"wait", "report", "vwait", "done"}) =>
        \A s \in Streams : ended[s] = "eof"

\* C5: for every call of ExecutePlaybook, verbose or not, any one of a
\* non-zero exit code, a failure marker in the output and a recap with
\* failed > 0 makes the call return an error.
C5_AnySignalFails ==
    (Returned /\ started /\ api = "ExecutePlaybook"
       /\ (\/ exitCode # 0
           \/ MarkerIn(program["stdout"]) \/ MarkerIn(program["stderr"])
           \/ RecapAfter(program["stdout"]).Failed > 0))
    => retErr # "nil"

\* C6: once Generate has returned an inventory path, the file no longer
\* exists when the call has returned, on every exit path.
C6_InventoryRemoved ==
    (Returned /\ inventoryPath # NoPath) => inventoryPath \notin DOMAIN fs

C6_Witness ==
    /\ Returned /\ started
    /\ retErr = "ansible-playbook failed"
    /\ inventoryPath # NoPath
    /\ inventoryPath \notin DOMAIN fs

\* C7: Cleanup on a path that does not exist (removed before, or never
\* created) returns no error.
C7_CleanupIdempotent == ~lastCleanup.existed => lastCleanup.err = "nil"

\* C8: the inventory path is unique per call: two users of the generator
\* never hold the same path.
C8_UniquePaths ==
    \A c1, c2 \in Callers :
        (c1 # c2 /\ held[c1] # NoPath) => held[c1] # held[c2]

\* C9: when the playbook file does not exist the call returns the
\* playbook-not-found error, never starts the subprocess and leaves no
\* inventory file behind.
C9_PlaybookNotFound ==
    (Returned /\ inventoryPath # NoPath /\ ~playbookExists) =>
        /\ retErr = "playbook not found"
        /\ retResult.nil
        /\ ~started
        /\ args = <<>>
        /\ inventoryPath \notin DOMAIN fs

C9_Witness ==
    /\ Returned /\ ~playbookExists
    /\ inventoryPath = OutputPath("web", 0)
    /\ retErr = "playbook not found"
    /\ fs = NoFiles

\* the object that follows --extra-vars in an argument vector, decoded: the
\* key before each colon with the number after it
SentVars(argv) ==
    LET Fl == {i \in 1..Len(argv) : argv[i] = <<"--extra-vars">>}
    IN  IF Fl = {} THEN [k \in {} |-> 0]
        ELSE LET js == argv[(CHOOSE i \in Fl : TRUE) + 1]
                 Cs == {i \in 1..Len(js) : js[i] = ":"}
             IN  [k \in {js[i - 1] : i \in Cs} |->
                    LET i == CHOOSE j \in Cs : js[j - 1] = k
                    IN  Sscanf(SubSeq(js, i + 1, i + DigitRun(js, i + 1)))]

\* C10: the payload passed with --extra-vars is the union of the global and
\* the call's variables; a key in both carries the call's value, a key in
\* one of them carries that one's value.
C10_VariablePrecedence ==
    pc = "pipes" =>
        LET sent == SentVars(args)
        IN  /\ DOMAIN sent = DOMAIN globalVars \cup DOMAIN extraVars
            /\ \A k \in DOMAIN extraVars : sent[k] = extraVars[k]
            /\ \A k \in DOMAIN globalVars \ DOMAIN extraVars : sent[k] = globalVars[k]

C10_Witness ==
    /\ pc = "pipes"
    /\ DOMAIN globalVars = {"a", "b"} /\ globalVars["a"] = 1 /\ globalVars["b"] = 2
    /\ DOMAIN extraVars = {"b", "c"} /\ extraVars["b"] = 3 /\ extraVars["c"] = 4
    /\ args[Len(args)] = <<"{", "a", ":", "1", ",", "b", ":", "3", ",", "c", ":", "4", "}">>

\* the value of a matches field in lower case
Lower(v) ==
    CASE v \in {"true", "True", "TRUE"}    -> "true"
      [] v \in {"false", "False", "FALSE"} -> "false"
      [] OTHER                             -> v

\* C11: a DNS_STATUS line with the fields domain, resolved_ip, server_ip and
\* matches parses into a sub-result with exactly those three tokens, and
\* matches is read without regard to case: true, True and TRUE give
\* Matches = true, every casing of false gives Matches = false.
C11_MatchesAnyCase ==
    (Returned /\ WithResult /\ outputBuffer # <<>>) =>
        \A v \in {"true", "True", "TRUE", "false", "False", "FALSE"} :
            outputBuffer[1] = DnsLine(v) =>
                retResult.DNSStatus =
                    [nil |-> FALSE, Domain |-> <<"example.com">>,
                     ResolvedIP |-> <<"1.2.3.4">>, ServerIP |-> <<"5.6.7.8">>,
                     Matches |-> Lower(v) = "true"]

\* the well-formed marker lines
DnsMarkers == {DnsLine(v) : v \in {"true", "True", "TRUE", "false", "False", "FALSE"}}

\* C12: the sub-results are attached whatever the verdict: when a DNS_STATUS
\* or SSL_ISSUED marker is among the captured output,
\* ExecutePlaybookWithResult returns a non-nil result that carries the
\* sub-result, in a run judged successful as in a run judged failed.
C12_SubResultsAttached ==
    (Returned /\ WithResult /\ started) =>
        /\ ~retResult.nil
        /\ (\E k \in 1..Len(outputBuffer) : outputBuffer[k] \in DnsMarkers)
              => (~retResult.DNSStatus.nil
                  /\ retResult.DNSStatus.Domain = <<"example.com">>)
        /\ (\E k \in 1..Len(outputBuffer) : outputBuffer[k] = SslLine)
              => (~retResult.SSLInfo.nil
                  /\ retResult.SSLInfo.Domain = <<"example.com">>)

C12_Witness ==
    /\ Returned /\ WithResult
    /\ outputBuffer = <<SslLine, FatalLine>>
    /\ exitCode = 0
    /\ retErr = "playbook completed with failures"
    /\ ~retResult.Success
    /\ retResult.SSLInfo = [nil |-> FALSE, Domain |-> <<"example.com">>,
                            Expiry |-> <<"2026-02-04">>]

\* the lines that have a part of the shape of a marker only
PartialLines == {DnsNoServer, DnsLine("maybe"), SslNoExpiry, SslBlankExpiry}

\* C13: a line that matches the shape of a marker in part only (DNS_STATUS
\* without a field or with a matches value that is neither true nor false,
\* SSL_ISSUED without an expiry) is an unmatched line: it is kept in the
\* captured output, it fills no sub-result and it causes no error.
C13_PartialMatchUnmatched ==
    (Returned /\ WithResult /\ outputBuffer # <<>>
       /\ \A k \in 1..Len(outputBuffer) : outputBuffer[k] \in PartialLines) =>
        /\ retResult.Output = outputBuffer
        /\ retResult.DNSStatus.nil
        /\ retResult.SSLInfo.nil
        /\ (exitCode = 0 => retErr = "nil")

\* C14: setup and launch errors come before any execution: the subprocess
\* is started only after Generate has written the inventory and os.Stat has
\* found the playbook, and when a step before or at the launch fails the
\* call returns its error with no reader goroutine started and no output
\* consumed.
C14_SetupBeforeLaunch ==
    /\ started =>
          /\ fault = "none"
          /\ playbookExists
          /\ inventoryPath # NoPath
          /\ ~Returned => (inventoryPath \in DOMAIN fs /\ fs[inventoryPath].complete)
    /\ (Returned /\ ~started) =>
          /\ retErr # "nil"
          /\ retResult.nil
          /\ \A s \in Streams :
                rdr[s] = "idle" /\ program[s] = <<>> /\ pipe[s] = <<>>
          /\ outputBuffer = <<>> /\ errorBuffer = <<>>
          /\ done = 0

C14_Witness ==
    /\ Returned /\ ~started
    /\ fault = "start"
    /\ api = "ExecutePlaybook" /\ ~verbose
    /\ spinner.Suffix = <<" Starting...">>
    /\ retErr = "failed to start ansible-playbook"

\* C15: in the quiet paths nothing is printed and no error is returned
\* while the spinner runs: it is stopped before the summary, the excerpt
\* and the error, when the launch fails as when the run fails or succeeds.
C15_SpinnerStoppedFirst ==
    (Quiet /\ (console # <<>> \/ Returned)) => ~spinner.active

C15_Witness ==
    /\ QuietRun
    /\ spinner = [active |-> FALSE, Suffix |-> <<" ", "nginx">>]
    /\ exitCode = 1
    /\ console # <<>>
    /\ retErr = "ansible-playbook failed"

\* the line a reader goroutine holds between Scan and the append
InHand(s) == IF rdr[s] \in {"lock", "locked"} THEN <<cur[s]>> ELSE <<>>

Capture(s) == IF s = "stdout" THEN outputBuffer ELSE errorBuffer

C18_MutualExclusion ==
    [][/\ ~(rdr'["stdout"] = "locked" /\ rdr'["stderr"] = "locked")
       /\ <<outputBuffer, errorBuffer, failed, result, currentTask>>'
             # <<outputBuffer, errorBuffer, failed, result, currentTask>>
          => (mu \in Streams /\ rdr[mu] = "locked" /\ mu' = "free")]_vars

C18_Witness ==
    /\ rdr["stdout"] = "locked" /\ mu = "stdout"
    /\ rdr["stderr"] = "lock"
    /\ cur["stderr"] = FatalLine

\* C16: a read error on one stream never blocks the subprocess: whenever the
\* subprocess is inside a write to a full pipe, the reader of that pipe is
\* still consuming it, so the write completes and the call goes on to its
\* verdict.
C16_ChildNeverStuck ==
    \A s \in Streams : blocked[s] => rdr[s] \in {"scan", "lock", "locked"}

\* the records of the configuration that the commands keep up to date: per
\* server its status and its sites with their domains and SSL fields
Records(cfg) ==
    [i \in 1..Len(cfg.Servers) |->
        [Name |-> cfg.Servers[i].Name, Status |-> cfg.Servers[i].Status,
         Sites |-> cfg.Servers[i].Sites]]

\* C19: a command run with --dry-run leaves the persisted configuration as
\* it was: no step of it changes the status of a server, a site record, a
\* domain record or an SSL field, also when the playbook run in check mode
\* reports success.
C19_DryRunNoChange ==
    [][dryRun' => Records(config') = Records(config)]_vars

SitesOf(cfg) == [i \in 1..Len(cfg.Servers) |-> cfg.Servers[i].Sites]

Shown(line) == \E i \in 1..Len(console) : console[i].text = line

IsTaskLine(line) == taskPattern(line) # NoMatch

\* index of the last TASK line before index k of the captured stdout, 0 when
\* there is none
TaskBefore(k) ==
    LET Js == {j \in 1..(k - 1) : IsTaskLine(outputBuffer[j])}
    IN  IF Js = {} THEN 0 ELSE CHOOSE j \in Js : \A m \in Js : m <= j

\* C21: when the subprocess exits non-zero and a stdout line with fatal:
\* follows a TASK line, the call returns an error and the excerpt printed
\* holds that fatal line and the TASK line before it, whatever the number
\* of lines between the two.
C21_FatalAndTaskShown ==
    (Returned /\ cmdErr) =>
        \A k \in 1..Len(outputBuffer) :
            (Contains(outputBuffer[k], "fatal:") /\ TaskBefore(k) # 0) =>
                /\ retErr # "nil"
                /\ api = "ExecutePlaybookWithResult" => ~retResult.Success
                /\ Shown(outputBuffer[k])
                /\ Shown(outputBuffer[TaskBefore(k)])

\* a failed run whose fatal line comes more lines after its TASK line than
\* the excerpt takes after a marker
C21_Witness ==
    /\ Returned /\ cmdErr
    /\ outputBuffer = <<TaskLine>> \o Fill(maxContextLines + 1) \o <<FatalLine>>
    /\ Shown(FatalLine) /\ Shown(TaskLine)

\* how far the call has come
PcRank(p) ==
    CASE p = "call" -> 0
      [] p = "stat" -> 1
      [] p = "pipes" -> 2
      [] p = "spin" -> 3
      [] p \in {"start", "vstart"} -> 4
      [] p \in {"recv1", "vrecv"} -> 5
      [] p = "recv2" -> 6
      [] p \in {"wait", "vwait"} -> 7
      [] p = "report" -> 8
      [] OTHER -> 9

\* C22: within one call the inventory is generated at most once and the
\* subprocess started at most once, whatever error or failure verdict
\* occurs: the call never goes back to an earlier step, a file is written
\* by the one step that generates the inventory, the subprocess is started
\* by the one step that launches it, and what was returned stays returned.
C22_NoRetry ==
    [][/\ PcRank(pc') >= PcRank(pc)
       /\ (DOMAIN fs' \ DOMAIN fs # {}) => (pc = "call" /\ pc' # "call")
       /\ (started' # started) => (~started /\ PcRank(pc) = 4 /\ PcRank(pc') > 4)
       /\ Returned => (Returned' /\ retErr' = retErr /\ retResult' = retResult
                          /\ DOMAIN fs' \subseteq DOMAIN fs)]_vars

\* a started run that returned a failure verdict
C22_Witness == Returned /\ started /\ retErr # "nil" /\ inventoryPath # NoPath

\* the recap lines the subprocess writes, with the counters they state
RecapLines == {RecapOk, RecapFailed}

StatedCounters(line) ==
    IF line = RecapOk THEN [Ok |-> 2, Changed |-> 1, Failed |-> 0]
    ELSE [Ok |-> 1, Changed |-> 0, Failed |-> 1]

LastRecap(buf) ==
    LET Ks == {k \in 1..Len(buf) : buf[k] \in RecapLines}
    IN  IF Ks = {} THEN [Ok |-> 0, Changed |-> 0, Failed |-> 0]
        ELSE StatedCounters(buf[CHOOSE k \in Ks : \A m \in Ks : m <= k])

\* C23: at every moment the stored recap counters are those of the most
\* recent recap line read from stdout (zero before any), so after a recap
\* with failed > 0 followed by a recap with failed = 0 the counter the
\* verdict uses is 0: with exit code 0 and no failure marker the quiet
\* call returns no error.
C23_RecapLastWins ==
    /\ Quiet => result = LastRecap(outputBuffer)
    /\ (QuietRun /\ LastRecap(outputBuffer).Failed = 0 /\ ~cmdErr /\ ~failed)
          => retErr = "nil"

\* a quiet run that read a failed recap and then a clean one
C23_Witness ==
    /\ QuietRun
    /\ outputBuffer = <<RecapFailed, RecapOk>>
    /\ result.Failed = 0
    /\ retErr = "nil"

(***************************************************************************)
(* C24: for the same flags (verbose, dry-run), the same request and the    *)
(* same subprocess behaviour (stdout lines, stderr lines, exit code),      *)
(* ExecutePlaybook returns an error if and only if                         *)
(* ExecutePlaybookWithResult returns an error, and both build the same     *)
(* argument vector.                                                        *)
(***************************************************************************)
C24_EntryPointsAgree ==
    (prev.called /\ pc = "done") =>
        /\ (prev.err # "nil") <=> (retErr # "nil")
        /\ prev.args = args

\* the argument vectors alone
C24_SameArgs == (prev.called /\ pc = "done") => prev.args = args

\* the verdicts of the two quiet paths alone
C24_QuietAgree ==
    (prev.called /\ pc = "done" /\ ~verbose) =>
        ((prev.err # "nil") <=> (retErr # "nil"))

\* the state is the one the classifier leaves after the lines
ClassifiedAs(lines) ==
    /\ result = RecapAfter(lines)
    /\ currentTask = TaskAfter(lines)
    /\ api = "ExecutePlaybookWithResult" =>
          /\ retResult.DNSStatus = parseDNSStatus(lines)
          /\ retResult.SSLInfo = parseSSLInfo(lines)

(***************************************************************************)
(* C25: every line of either stream goes through the same classifier: a    *)
(* task header, a recap line, a DNS_STATUS marker or an SSL_ISSUED marker  *)
(* updates the progress and result state and the structured sub-results in *)
(* the same way whether it arrives on stdout or on stderr.  Stated on the  *)
(* returned quiet runs in which one stream stayed empty: the state is the  *)
(* one the lines give when read in their order.                            *)
(***************************************************************************)
C25_SameClassifier ==
    (Quiet /\ pc = "done" /\ started /\ (outputBuffer = <<>> \/ errorBuffer = <<>>)) =>
        ClassifiedAs(outputBuffer \o errorBuffer)

\* the lines of stdout alone
C25_StdoutClassified ==
    (Quiet /\ pc = "done" /\ started /\ errorBuffer = <<>>) =>
        ClassifiedAs(outputBuffer)

\* index of the last line of the captured stdout that matches the pattern
\* of printErrorContext, 0 when there is none
LastMarker ==
    LET Ks == {k \in 1..Len(outputBuffer) : ErrorContextMatch(outputBuffer[k])}
    IN  IF Ks = {} THEN 0 ELSE CHOOSE k \in Ks : \A m \in Ks : m <= k

\* the lines printed between the header `Task failed:` and the stderr lines
\* on one side and the closing `Failed:` line on the other
Excerpt ==
    [i \in 1..(Len(console) - 2 - Len(errorBuffer)) |->
        console[1 + Len(errorBuffer) + i].text]

\* all captured stderr lines come first, in red
StderrFirst ==
    \A i \in 1..Len(errorBuffer) :
        console[1 + i] = [color |-> "red", text |-> errorBuffer[i]]

(***************************************************************************)
(* C26: on failure the excerpt first re-emits all captured stderr lines,   *)
(* then prints from the captured stdout only the region that follows the   *)
(* most recent failure/task marker, and at most 15 context lines after the *)
(* marker line, so that the stdout text printed does not grow with the     *)
(* number of tasks run before the failure.                                 *)
(***************************************************************************)
C26_ExcerptBounded ==
    (Returned /\ retErr # "nil") =>
        /\ StderrFirst
        /\ Len(Excerpt) <= 1 + maxContextLines
        /\ Excerpt # <<>> =>
              /\ LastMarker # 0
              /\ LastMarker + Len(Excerpt) - 1 <= Len(outputBuffer)
              /\ \A i \in 1..Len(Excerpt) : Excerpt[i] = outputBuffer[LastMarker + i - 1]

\* the stderr lines alone
C26_StderrFirst == (Returned /\ retErr # "nil") => StderrFirst

\* a printed stdout line is a marker or one of the 15 lines after a marker
C26_WithinContext ==
    (Returned /\ retErr # "nil") =>
        \A i \in 1..Len(Excerpt) :
            \E k \in 1..Len(outputBuffer) :
                /\ ErrorContextMatch(outputBuffer[k])
                /\ \E j \in 0..maxContextLines :
                      k + j <= Len(outputBuffer) /\ outputBuffer[k + j] = Excerpt[i]

\* the line begins with the marker text
BeginsWith(line, marker) == line # <<>> /\ line[1] = marker

(***************************************************************************)
(* C27: marker recognition is line-anchored: DNS_STATUS: and SSL_ISSUED:   *)
(* are recognized only when they begin the line; a line in which the       *)
(* marker text comes after other characters is an unmatched line and fills *)
(* no structured sub-result.                                               *)
(***************************************************************************)
C27_LineAnchored ==
    (Returned /\ WithResult) =>
        /\ ~retResult.DNSStatus.nil =>
              \E k \in 1..Len(outputBuffer) : BeginsWith(outputBuffer[k], "DNS_STATUS:")
        /\ ~retResult.SSLInfo.nil =>
              \E k \in 1..Len(outputBuffer) : BeginsWith(outputBuffer[k], "SSL_ISSUED:")

\* the complete contents the configuration file may hold: the previous one
\* and the one of a Save call
CompleteContents == {OldData} \cup {yamlMarshal(c) : c \in Callers}

(***************************************************************************)
(* C28: Save is atomic: at every moment the configuration file holds the   *)
(* complete previous content or the complete content of some Save call,    *)
(* never a partial or mixed write, also when a Load runs during a Save and *)
(* when two Save calls of concurrent CLI invocations overlap; a Load reads *)
(* such a content.                                                         *)
(***************************************************************************)
C28_SaveAtomic ==
    /\ disk.data[disk.names["config"]] \in CompleteContents
    /\ loaded.read => loaded.data \in CompleteContents

\* the Save calls of one caller with Loads at any moment: as long as no
\* other caller has called Save, the file and every Load show a complete
\* content
C28_OneSaver ==
    (\E c \in Callers : \A e \in Callers \ {c} : saver[e].saves = 0) => C28_SaveAtomic

\* the server of the name exists in the configuration and is provisioned
Provisioned(cfg, serverName) ==
    /\ ServerIndex(cfg, serverName) # 0
    /\ cfg.Servers[ServerIndex(cfg, serverName)].Status = "provisioned"

\* a step adds a site record to some server
SiteAdded ==
    \E i \in 1..Len(config.Servers) :
        Len(config'.Servers[i].Sites) > Len(config.Servers[i].Sites)

(***************************************************************************)
(* C29: site create runs only against a provisioned server: it reaches the *)
(* call of the executor (the inventory, the subprocess) only when the      *)
(* named server exists with the status provisioned, and a site record is   *)
(* added only by a site create that got there; when the server is missing  *)
(* or not provisioned the command exits with status 1 and the              *)
(* configuration as it was.                                                *)
(***************************************************************************)
C29_ProvisionedOnly ==
    [][/\ (cmd'.name = "site create" /\ cmd'.pc = "run") =>
              Provisioned(config', cmd'.ServerName)
       /\ SiteAdded =>
              /\ cmd.name = "site create" /\ cmd.pc = "run"
              /\ Provisioned(config, cmd.ServerName)
       /\ (console' # console /\ console' # <<>>) =>
              /\ cmd' = NoCommand /\ exitStatus' = 1 /\ args' = <<>>
              /\ config' = config]_vars

\* site create was refused on the server web, which is there and not
\* provisioned, and nothing was run or recorded
C29_Witness ==
    /\ console = <<ServerNotProvisioned("web")>>
    /\ ~Provisioned(config, "web")
    /\ cmd = NoCommand /\ exitStatus = 1 /\ args = <<>>
    /\ config.Servers[1].Sites = <<>>

\* site create was refused on a server that is not in the configuration
C29_MissingRefused ==
    /\ console = <<ServerNotFound("db")>>
    /\ ServerIndex(config, "db") = 0
    /\ cmd = NoCommand /\ exitStatus = 1

\* what the operation noted in lastOp was asked to find is in the
\* configuration it was given
ServerThere(cfg, serverName) ==
    \E i \in 1..Len(cfg.Servers) : cfg.Servers[i].Name = serverName

SiteThere(cfg, serverName, siteID) ==
    \E i \in 1..Len(cfg.Servers) :
        /\ cfg.Servers[i].Name = serverName
        /\ \E j \in 1..Len(cfg.Servers[i].Sites) :
              cfg.Servers[i].Sites[j].SiteID = siteID

DomainThere(cfg, serverName, siteID, domainName) ==
    \E i \in 1..Len(cfg.Servers) :
        /\ cfg.Servers[i].Name = serverName
        /\ \E j \in 1..Len(cfg.Servers[i].Sites) :
              /\ cfg.Servers[i].Sites[j].SiteID = siteID
              /\ \E k \in 1..Len(cfg.Servers[i].Sites[j].Domains) :
                    cfg.Servers[i].Sites[j].Domains[k].Domain = domainName

ServerOps == {"MarkServerProvisioned", "MarkServerError", "AddSiteToServer"}

SiteOps == {"RemoveSiteFromServer", "AddDomainToSite"}

DomainOps == {"RemoveDomainFromSite", "UpdateDomainSSL"}

TargetThere ==
    IF lastOp.op \in ServerOps THEN ServerThere(lastOp.before, lastOp.serverName)
    ELSE IF lastOp.op \in SiteOps
    THEN SiteThere(lastOp.before, lastOp.serverName, lastOp.siteID)
    ELSE DomainThere(lastOp.before, lastOp.serverName, lastOp.siteID, lastOp.domainName)

NotFoundErrors == {"server not found", "site not found", "domain not found"}

\* a sequence begins with another
IsPrefix(short, long) ==
    Len(short) <= Len(long) /\ SubSeq(long, 1, Len(short)) = short

\* the indices, in their order, of the keys that differ from the key
RECURSIVE KeptIndices(_, _, _)
KeptIndices(keys, key, i) ==
    IF i > Len(keys) THEN <<>>
    ELSE (IF keys[i] # key THEN <<i>> ELSE <<>>) \o KeptIndices(keys, key, i + 1)

\* the entries of the sequence at the indices
Pick(seq, idx) == [n \in 1..Len(idx) |-> seq[idx[n]]]

\* the domains of a site after the operation noted in lastOp, against the
\* domains before: the other domains are as they were, in their order
DomainsKept(before, after) ==
    LET names == [k \in 1..Len(before) |-> before[k].Domain]
    IN  CASE lastOp.op = "AddDomainToSite" -> IsPrefix(before, after)
          [] lastOp.op = "RemoveDomainFromSite" ->
                after = Pick(before, KeptIndices(names, lastOp.domainName, 1))
          [] lastOp.op = "UpdateDomainSSL" ->
                /\ Len(after) = Len(before)
                /\ \A k \in 1..Len(before) :
                      names[k] # lastOp.domainName => after[k] = before[k]
          [] OTHER -> after = before

\* the sites of a server after the operation against the sites before
SitesKept(before, after) ==
    LET ids == [j \in 1..Len(before) |-> before[j].SiteID]
    IN  CASE lastOp.op \in {"MarkServerProvisioned", "MarkServerError"} -> after = before
          [] lastOp.op = "AddSiteToServer" -> IsPrefix(before, after)
          [] lastOp.op = "RemoveSiteFromServer" ->
                after = Pick(before, KeptIndices(ids, lastOp.siteID, 1))
          [] OTHER ->
                /\ Len(after) = Len(before)
                /\ \A j \in 1..Len(before) :
                      /\ after[j].SiteID = before[j].SiteID
                      /\ ids[j] # lastOp.siteID => after[j] = before[j]
                      /\ ids[j] = lastOp.siteID =>
                            \/ after[j] = before[j]
                            \/ DomainsKept(before[j].Domains, after[j].Domains)

\* the servers after the operation against the servers before
ServersKept(before, after) ==
    /\ Len(after) = Len(before)
    /\ \A i \in 1..Len(before) :
          /\ after[i].Name = before[i].Name
          /\ after[i].HasPassword = before[i].HasPassword
          /\ before[i].Name # lastOp.serverName => after[i] = before[i]
          /\ before[i].Name = lastOp.serverName =>
                /\ SitesKept(before[i].Sites, after[i].Sites)
                /\ lastOp.op \notin {"MarkServerProvisioned", "MarkServerError"} =>
                      after[i].Status = before[i].Status

(***************************************************************************)
(* C30: the state-manager operations fail without side effects: each of    *)
(* the seven returns a not-found error and performs no Save, the persisted *)
(* configuration being as it was, when the named server, site or domain    *)
(* does not exist; when one succeeds, every server, site and domain other  *)
(* than the targeted one is unchanged and the remaining entries keep their *)
(* order.                                                                  *)
(***************************************************************************)
C30_FailWithoutEffect ==
    lastOp.op # "none" =>
        /\ ~TargetThere =>
              /\ lastOp.err \in NotFoundErrors
              /\ ~lastOp.saved
              /\ config = lastOp.before
        /\ lastOp.err # "nil" => (~lastOp.saved /\ config = lastOp.before)
        /\ lastOp.err = "nil" => ServersKept(lastOp.before.Servers, config.Servers)

\* the site in the middle of three was removed from the second server of
\* three
C30_Witness ==
    /\ lastOp.op = "RemoveSiteFromServer" /\ lastOp.err = "nil"
    /\ lastOp.serverName = "web" /\ lastOp.siteID = "blog"
    /\ Len(lastOp.before.Servers) = 3
    /\ Len(lastOp.before.Servers[2].Sites) = 3
    /\ config.Servers[2].Sites =
          <<St("shop", <<Dom("example.com")>>), St("wiki", <<>>)>>

\* an operation on a domain that is not on the site, the server and the
\* site being there, has failed
C30_MissingDomain ==
    /\ lastOp.op = "UpdateDomainSSL" /\ lastOp.err = "domain not found"
    /\ SiteThere(lastOp.before, lastOp.serverName, lastOp.siteID)
    /\ ~TargetThere
    /\ config = lastOp.before

\* a domain held twice was removed from between two others
C30_RemovedTwice ==
    /\ lastOp.op = "RemoveDomainFromSite" /\ lastOp.err = "nil"
    /\ lastOp.domainName = "example.com" /\ lastOp.siteID = "blog"
    /\ \E i \in 1..Len(config.Servers) :
          /\ lastOp.before.Servers[i].Sites # <<>>
          /\ lastOp.before.Servers[i].Sites[1].Domains =
                <<Dom("example.com"), Dom("www.example.com"), Dom("example.com")>>
          /\ config.Servers[i].Sites[1].Domains = <<Dom("www.example.com")>>

(***************************************************************************)
(* C31: Generate leaves nothing behind on failure: whenever Generate       *)
(* returns an error (the template does not parse, the file cannot be       *)
(* created, or the template fails to execute after the file was created),  *)
(* no inventory file written by that call remains on disk, so a failed     *)
(* ExecutePlaybook leaks no temporary file.                                *)
(***************************************************************************)
C31_GenerateLeavesNothing ==
    (Returned /\ retErr = "failed to generate inventory") =>
        OutputPath(server.Name, now) \notin DOMAIN fs

\* the failures of Generate before the file is created
C31_NothingBeforeCreate ==
    (Returned /\ retErr = "failed to generate inventory" /\ fault \in {"parse", "create"}) =>
        DOMAIN fs = {}

\* index of the first line of the captured stdout that the DNS_STATUS
\* pattern, or the SSL_ISSUED pattern, matches; 0 when there is none
FirstDns ==
    LET Ks == {k \in 1..Len(outputBuffer) : dnsPattern(outputBuffer[k]) # NoMatch}
    IN  IF Ks = {} THEN 0 ELSE CHOOSE k \in Ks : \A m \in Ks : k <= m

FirstSsl ==
    LET Ks == {k \in 1..Len(outputBuffer) : sslPattern(outputBuffer[k]) # NoMatch}
    IN  IF Ks = {} THEN 0 ELSE CHOOSE k \in Ks : \A m \in Ks : k <= m

(***************************************************************************)
(* C32: when several DNS_STATUS (or several SSL_ISSUED) marker lines are   *)
(* in the captured stdout of one invocation, the structured sub-result     *)
(* reflects the first such line in stream order; later marker lines never  *)
(* replace it.                                                             *)
(***************************************************************************)
C32_FirstMarkerWins ==
    (Returned /\ WithResult) =>
        /\ FirstDns # 0 =>
              retResult.DNSStatus = parseDNSStatus(<<outputBuffer[FirstDns]>>)
        /\ FirstSsl # 0 =>
              retResult.SSLInfo = parseSSLInfo(<<outputBuffer[FirstSsl]>>)

\* two DNS_STATUS lines that differ in their last field: the first one is
\* in the result
C32_Witness ==
    /\ Returned /\ WithResult
    /\ outputBuffer = <<DnsLine("true"), DnsLine("false")>>
    /\ ~retResult.DNSStatus.nil
    /\ retResult.DNSStatus.Matches

\* two SSL_ISSUED lines that differ in their expiry: the first one is in the
\* result
C32_SslFirst ==
    /\ Returned /\ WithResult
    /\ outputBuffer = <<SslBlankExpiry, SslLine>>
    /\ retResult.SSLInfo = [nil |-> FALSE, Domain |-> <<"example.com">>, Expiry |-> <<>>]

\* the subprocess has closed both streams and exited
ChildGone == started /\ exited /\ \A s \in Streams : wrClosed[s]

\* both readers have sent their signal and both signals were received
BothReceived == done = 0 /\ \A s \in Streams : rdr[s] = "end"

\* C33: in the quiet paths, under fair scheduling of the goroutines, once the
\* subprocess has closed stdout and stderr and exited the call returns; a
\* reader that is about to send its completion signal is never blocked (two
\* signals, capacity two); the verdict is computed only after both signals
\* were received and cmd.Wait returned, and once returned the verdict does
\* not change.
C33_QuietTerminates ==
    /\ [](\A s \in Streams : (Quiet /\ rdr[s] = "send") => ENABLED SendDone(s))
    /\ []((Quiet /\ started /\ pc \in {"report", "done"}) =>
              /\ BothReceived
              /\ exited
              /\ \A s \in Streams : rdClosed[s])
    /\ [][Returned => (Returned' /\ retErr' = retErr /\ retResult' = retResult)]_vars
    /\ (Quiet /\ ChildGone) ~> Returned

\* a quiet call that returned its verdict after a subprocess which wrote to
\* both streams, one of the lines over-long, closed them and exited
C33_Witness ==
    /\ QuietRun
    /\ ChildGone
    /\ BothReceived
    /\ program["stdout"] # <<>>
    /\ program["stderr"] # <<>>
    /\ ended["stdout"] = "error"

====
